---------------------------- MODULE Spec2Model ----------------------------
(***************************************************************************)
(* DoodleDiary (src/App.tsx): the App component's state, its two effects   *)
(* (load and persist of 'doodle_history'), the generate handler with its   *)
(* two awaited gateway calls, history-row selection and deletion, the      *)
(* archive export, and voice recording (GeminiService.connectVoice).       *)
(*                                                                         *)
(* Strings are TLA+ strings; a character is a string of length 1.          *)
(* An optional value (T | null, T | undefined) is a sequence of length at  *)
(* most one: <<>> is null/undefined/absent, <<v>> is the value v.          *)
(*                                                                         *)
(* One step is one run of a handler between two awaits (JavaScript runs it *)
(* to completion), together with the render and the effects React runs     *)
(* for the state it set: the persist effect is part of every step that     *)
(* sets history.  A handler suspended at an await keeps the transcript and *)
(* the style of the render it was created in.  The mount is two steps: the *)
(* first commit with its effects, then the render of the history the load  *)
(* effect handed to setHistory; the page can be closed between the two.    *)
(*                                                                         *)
(* The clock is the time Date.now() and new Date() read.  An entry is      *)
(* created at a later reading than the one before it (a generation takes   *)
(* two gateway round trips); an export reads the clock as it stands, when  *)
(* it is clicked and again when the archive is ready.                      *)
(***************************************************************************)
EXTENDS Integers, Sequences, FiniteSets, TLC

(***************************************************************************)
(* Bounds of the model.                                                    *)
(***************************************************************************)
\* Entries a run of Spec creates (one Date.now() reading each).
MaxEntries == 2
\* Entries a run of LongSpec creates; the clock readings of ArchiveSpec.
MaxTime == 3
\* Request chains the model lets be in flight at once before it stops
\* accepting more (the code has no such limit; the gate keeps it at one).
MaxInflight == 2
\* Date.now() readings that fall on one calendar day.
ReadingsPerDay == 2
\* connectVoice calls between a start of the application and its close, in
\* VoiceSpec.
MaxSessions == 2
\* The same, and the entries created, in FaultSpec and LiveSpec.
MaxRecordings == 1
\* Transcription messages a voice session delivers.
MaxFragments == 2

(***************************************************************************)
(* Strings.                                                                *)
(***************************************************************************)
None == <<>>
Some(v) == <<v>>

Ch(s, i) == SubSeq(s, i, i)

\* The characters of the texts in this module, by code unit: U+0001 ..
\* U+005F and U+0061 .. U+00FF (a string here cannot hold U+0060, and the
\* module does without U+0000).  LowChars holds the code unit u at index u,
\* HighChars at index u - 96.
LowChars == "\t\n\f\r !\"#$%&'()*+,-./0123456789:;<=>?@ABCDEFGHIJKLMNOPQRSTUVWXYZ[\\]^_"
HighChars == "abcdefghijklmnopqrstuvwxyz{|}~ ¡¢£¤¥¦§¨©ª«¬­®¯°±²³´µ¶·¸¹º»¼½¾¿ÀÁÂÃÄÅÆÇÈÉÊËÌÍÎÏÐÑÒÓÔÕÖ×ØÙÚÛÜÝÞßàáâãäåæçèéêëìíîïðñòóôõö÷øùúûüýþÿ"

\* U+0001 .. U+001F
ControlChars == {Ch(LowChars, u) : u \in 1..31}

\* The whitespace String.prototype.trim removes, of the characters a string
\* here can hold: tab, line feed, vertical tab, form feed, carriage return,
\* space, U+00A0, U+1680 and U+FEFF.
IsSpace(c) ==
  \/ \E u \in {9, 10, 11, 12, 13, 32} : c = Ch(LowChars, u)
  \/ c = Ch(HighChars, 160 - 96)
  \/ c \in {" ", "﻿"}

RECURSIVE TrimStart(_)
TrimStart(s) ==
  IF Len(s) > 0 /\ IsSpace(Ch(s, 1)) THEN TrimStart(SubSeq(s, 2, Len(s))) ELSE s

RECURSIVE TrimEnd(_)
TrimEnd(s) ==
  IF Len(s) > 0 /\ IsSpace(Ch(s, Len(s))) THEN TrimEnd(SubSeq(s, 1, Len(s) - 1)) ELSE s

\* transcript.trim()
trim(s) == TrimEnd(TrimStart(s))

Digit(d) == Ch("0123456789", d + 1)

\* Number.prototype.toString() of a non-negative integer: its decimal digits.
RECURSIVE NumToString(_)
NumToString(n) ==
  IF n < 10 THEN Digit(n) ELSE NumToString(n \div 10) \o Digit(n % 10)

(***************************************************************************)
(* JSON.stringify of the history array.  Keys come out in insertion order: *)
(* the entry literal of handleGenerateDoodle and the style state literal.  *)
(***************************************************************************)
\* JSON.stringify's QuoteJSONString, for one character: the short escapes,
\* \u00xx (lowercase) for the other control characters, the character
\* itself otherwise.
QuoteChar(c) ==
  CASE c = "\"" -> "\\\""
    [] c = "\\" -> "\\\\"
    [] c = "\n" -> "\\n"
    [] c = "\t" -> "\\t"
    [] c = "\f" -> "\\f"
    [] c = "\r" -> "\\r"
    [] c = Ch(LowChars, 8) -> "\\b"
    [] c \in ControlChars ->
         LET u == CHOOSE u \in 1..31 : c = Ch(LowChars, u)
         IN "\\u00" \o Ch("01", 1 + (u \div 16)) \o Ch("0123456789abcdef", 1 + (u % 16))
    [] OTHER -> c

\* The escaped characters of s[lo..hi], concatenated.
RECURSIVE QuoteRange(_, _, _)
QuoteRange(s, lo, hi) ==
  IF lo > hi THEN ""
  ELSE IF lo = hi THEN QuoteChar(Ch(s, lo))
  ELSE LET mid == (lo + hi) \div 2
       IN QuoteRange(s, lo, mid) \o QuoteRange(s, mid + 1, hi)

\* The characters JSON.stringify escapes (of this module's characters).
EscapedChars == {"\"", "\\"} \cup ControlChars

NeedsEscape(s) == \E i \in 1..Len(s) : SubSeq(s, i, i) \in EscapedChars

QuoteBody(s) == IF NeedsEscape(s) THEN QuoteRange(s, 1, Len(s)) ELSE s

\* JSON.stringify of a string: quoted, with ", \ and control characters escaped.
Quote(s) == "\"" \o QuoteBody(s) \o "\""

\* A member's key and colon.
Key(k) == Quote(k) \o ":"

ThicknessKey == Key("thickness")
ColorKey == Key("color")
ArtStyleKey == Key("artStyle")
IdKey == Key("id")
DateKey == Key("date")
TranscriptKey == Key("transcript")
ImageUrlKey == Key("imageUrl")
PromptKey == Key("prompt")
StyleKey == Key("style")

StringifyStyle(st) ==
  "{" \o ThicknessKey \o Quote(st.thickness) \o ","
      \o ColorKey \o Quote(st.color) \o ","
      \o ArtStyleKey \o Quote(st.artStyle) \o "}"

StringifyEntry(e) ==
  "{" \o IdKey \o Quote(e.id) \o ","
      \o DateKey \o Quote(e.date) \o ","
      \o TranscriptKey \o Quote(e.transcript) \o ","
      \o ImageUrlKey \o Quote(e.imageUrl) \o ","
      \o PromptKey \o Quote(e.prompt) \o ","
      \o StyleKey \o StringifyStyle(e.style) \o "}"

RECURSIVE StringifyElems(_)
StringifyElems(h) ==
  IF Len(h) = 0 THEN ""
  ELSE IF Len(h) = 1 THEN StringifyEntry(h[1])
  ELSE StringifyEntry(h[1]) \o "," \o StringifyElems(Tail(h))

\* JSON.stringify(history)
JSONstringify(h) == "[" \o StringifyElems(h) \o "]"

(***************************************************************************)
(* Numbers.  JSON.parse reads a numeral as the double nearest to it (ties  *)
(* to the even one), and String() and JSON.stringify write a double with   *)
(* the fewest digits that read back as the same double.  A number value    *)
(* [t |-> "num", d |-> text] carries the text String() gives for it.       *)
(*                                                                         *)
(* The arithmetic is on natural numbers of any size: a sequence of limbs   *)
(* in base 10^4, the lowest first, without a zero limb at the top.  The    *)
(* operators split their range in halves, to keep the evaluation shallow.  *)
(***************************************************************************)
Limb == 10000

BigTrim(a) ==
  IF \A i \in 1..Len(a) : a[i] = 0 THEN <<>>
  ELSE SubSeq(a, 1, CHOOSE i \in 1..Len(a) :
                      a[i] # 0 /\ \A j \in (i + 1)..Len(a) : a[j] = 0)

\* The limbs of a number below 2^31.
BigFromInt(x) == BigTrim(<<x % Limb, (x \div Limb) % Limb, x \div (Limb * Limb)>>)

\* a < b
BigLess(a, b) ==
  \/ Len(a) < Len(b)
  \/ /\ Len(a) = Len(b)
     /\ \E i \in 1..Len(a) : a[i] < b[i] /\ \A j \in (i + 1)..Len(a) : a[j] = b[j]

\* The limbs lo..hi of a * m + carry * Limb^(lo-1), and the carry out of
\* them, for m <= 2^17.
RECURSIVE BigMulRange(_, _, _, _, _)
BigMulRange(a, m, lo, hi, carry) ==
  IF lo = hi
    THEN LET x == a[lo] * m + carry IN [v |-> <<x % Limb>>, c |-> x \div Limb]
    ELSE LET mid == (lo + hi) \div 2
             low == BigMulRange(a, m, lo, mid, carry)
             high == BigMulRange(a, m, mid + 1, hi, low.c)
         IN [v |-> low.v \o high.v, c |-> high.c]

\* a * m + x, for m <= 2^17 and x < 2^30.
BigMulAdd(a, m, x) ==
  IF a = <<>> THEN BigFromInt(x)
  ELSE LET r == BigMulRange(a, m, 1, Len(a), x)
       IN BigTrim(r.v \o BigFromInt(r.c))

BigMulSmall(a, m) == BigMulAdd(a, m, 0)
BigAddSmall(a, x) == BigMulAdd(a, 1, x)

\* The quotient's limbs lo..hi and the remainder of a's limbs hi..lo after
\* the remainder r of the limbs above them, divided by d <= 2^17.
RECURSIVE BigDivRange(_, _, _, _, _)
BigDivRange(a, d, lo, hi, r) ==
  IF lo = hi
    THEN LET x == r * Limb + a[lo] IN [v |-> <<x \div d>>, r |-> x % d]
    ELSE LET mid == (lo + hi) \div 2
             high == BigDivRange(a, d, mid + 1, hi, r)
             low == BigDivRange(a, d, lo, mid, high.r)
         IN [v |-> low.v \o high.v, r |-> low.r]

BigDivSmall(a, d) ==
  IF a = <<>> THEN <<>> ELSE BigTrim(BigDivRange(a, d, 1, Len(a), 0).v)

\* The limbs lo..hi of a - b - borrow * Limb^(lo-1), and the borrow out of
\* them.
RECURSIVE BigSubRange(_, _, _, _, _)
BigSubRange(a, b, lo, hi, borrow) ==
  IF lo = hi
    THEN LET x == a[lo] - (IF lo <= Len(b) THEN b[lo] ELSE 0) - borrow
         IN [v |-> <<IF x < 0 THEN x + Limb ELSE x>>, c |-> IF x < 0 THEN 1 ELSE 0]
    ELSE LET mid == (lo + hi) \div 2
             low == BigSubRange(a, b, lo, mid, borrow)
             high == BigSubRange(a, b, mid + 1, hi, low.c)
         IN [v |-> low.v \o high.v, c |-> high.c]

\* a - b, for a >= b.
BigSub(a, b) ==
  IF a = <<>> THEN <<>> ELSE BigTrim(BigSubRange(a, b, 1, Len(a), 0).v)

\* a * 2^k, a * 5^k, a * 10^k
RECURSIVE BigMulPow2(_, _)
BigMulPow2(a, k) ==
  IF k <= 17 THEN BigMulSmall(a, 2^k)
  ELSE LET half == BigMulPow2(a, k \div 2)
       IN IF half = <<>> THEN <<>> ELSE BigMulPow2(half, k - (k \div 2))

RECURSIVE BigMulPow5(_, _)
BigMulPow5(a, k) ==
  IF k <= 7 THEN BigMulSmall(a, 5^k)
  ELSE LET half == BigMulPow5(a, k \div 2)
       IN IF half = <<>> THEN <<>> ELSE BigMulPow5(half, k - (k \div 2))

BigMulPow10(a, k) ==
  IF a = <<>> THEN <<>>
  ELSE [i \in 1..(k \div 4) |-> 0] \o BigMulSmall(a, 10^(k % 4))

\* The value of a text of decimal digits, and the digits of a value.
DigitValue(c) == CHOOSE d \in 0..9 : c = Digit(d)

RECURSIVE DigitsValue(_)
DigitsValue(s) ==
  IF Len(s) = 0 THEN 0
  ELSE 10 * DigitsValue(SubSeq(s, 1, Len(s) - 1)) + DigitValue(Ch(s, Len(s)))

BigFromDigits(s) ==
  BigTrim([i \in 1..((Len(s) + 3) \div 4) |->
             DigitsValue(SubSeq(s, IF Len(s) - 4 * i + 1 < 1 THEN 1 ELSE Len(s) - 4 * i + 1,
                                Len(s) - 4 * (i - 1)))])

LimbDigits(x) ==
  Digit(x \div 1000) \o Digit((x \div 100) % 10) \o Digit((x \div 10) % 10) \o Digit(x % 10)

\* s without its zeros at the start, at the end.
StripZeros(s) ==
  IF \A i \in 1..Len(s) : Ch(s, i) = "0" THEN ""
  ELSE SubSeq(s, CHOOSE i \in 1..Len(s) :
                   Ch(s, i) # "0" /\ \A j \in 1..(i - 1) : Ch(s, j) = "0",
              Len(s))

StripZerosEnd(s) ==
  IF \A i \in 1..Len(s) : Ch(s, i) = "0" THEN ""
  ELSE SubSeq(s, 1, CHOOSE i \in 1..Len(s) :
                      Ch(s, i) # "0" /\ \A j \in (i + 1)..Len(s) : Ch(s, j) = "0")

\* The digits of the limbs hi..lo, the highest first.
RECURSIVE LimbsDigits(_, _, _)
LimbsDigits(a, lo, hi) ==
  IF lo = hi THEN LimbDigits(a[lo])
  ELSE LET mid == (lo + hi) \div 2
       IN LimbsDigits(a, mid + 1, hi) \o LimbsDigits(a, lo, mid)

\* The decimal digits of a, without leading zeros ("" for zero).
BigToDigits(a) == IF a = <<>> THEN "" ELSE StripZeros(LimbsDigits(a, 1, Len(a)))

\* A double: zero, infinity, or the value m * 2^e with 2^52 <= m < 2^53,
\* or with m < 2^52 and e = -1074 (m a natural number of any size).
Zero == [k |-> "zero", m |-> <<>>, e |-> 0]
Infinity == [k |-> "inf", m |-> <<>>, e |-> 0]
Two52 == BigMulPow2(<<1>>, 52)
Two53 == BigMulPow2(<<1>>, 53)

Finite(m, e) ==
  IF m = <<>> THEN Zero
  ELSE LET m2 == IF m = Two53 THEN Two52 ELSE m
           e2 == IF m = Two53 THEN e + 1 ELSE e
       IN IF e2 > 971 THEN Infinity ELSE [k |-> "fin", m |-> m2, e |-> e2]

\* The binary digits hi..lo of the quotient a / b (the digit i counts 2^i),
\* the highest first, and the remainder above them, for a < b * 2^(hi+1).
RECURSIVE DivBits(_, _, _, _)
DivBits(a, b, lo, hi) ==
  IF lo = hi
    THEN LET Bit(top) == IF BigLess(a, top) THEN [bits |-> <<0>>, rem |-> a]
                         ELSE [bits |-> <<1>>, rem |-> BigSub(a, top)]
         IN Bit(BigMulPow2(b, lo))
    ELSE LET mid == (lo + hi) \div 2
             high == DivBits(a, b, mid + 1, hi)
             low == DivBits(high.rem, b, lo, mid)
         IN [bits |-> high.bits \o low.bits, rem |-> low.rem]

\* The number whose binary digits are bits[lo..hi], the highest first (at
\* most 30 of them).
RECURSIVE BitsValue(_, _, _)
BitsValue(bits, lo, hi) ==
  IF lo > hi THEN 0
  ELSE IF lo = hi THEN bits[lo]
  ELSE LET mid == (lo + hi) \div 2
       IN BitsValue(bits, lo, mid) * 2^(hi - mid) + BitsValue(bits, mid + 1, hi)

\* The number whose binary digits are bits[1..n], for n <= 53.
BigFromBits(bits, n) ==
  IF n <= 26 THEN BigFromInt(BitsValue(bits, 1, n))
  ELSE BigMulAdd(BigMulSmall(BigFromInt(BitsValue(bits, 1, n - 26)), 8192), 8192,
                 BitsValue(bits, n - 25, n))

\* The double of a quotient of 55 to 60 binary digits, r = [bits, rem], that
\* was taken after a multiplication by 2^s: the mantissa keeps the first 53
\* digits (fewer for a subnormal), the digits below them and the remainder
\* decide the rounding (to the nearest, ties to the even mantissa).
Round(r, s) ==
  LET first == CHOOSE i \in 1..60 : r.bits[i] = 1 /\ \A j \in 1..(i - 1) : r.bits[j] = 0
      normal == 8 - first
      keep == 60 - (IF s - 1074 > normal THEN s - 1074 ELSE normal)
      up == /\ r.bits[keep + 1] = 1
            /\ \/ \E i \in (keep + 2)..60 : r.bits[i] = 1
               \/ r.rem # <<>>
               \/ r.bits[keep] = 1
  IN Finite(BigMulAdd(BigFromBits(r.bits, keep), 1, IF up THEN 1 ELSE 0), 60 - keep - s)

\* The double nearest to digits * 10^exp, for digits without a leading
\* zero.  The quotient digits * 10^exp * 2^s is taken with s such that it
\* has 55 to 60 binary digits.
ToDouble(digits, exp) ==
  LET L == Len(digits) + exp
      s == 55 - (((L - 1) * 33219) \div 10000)
      N == IF exp >= 0 THEN BigMulPow10(BigFromDigits(digits), exp) ELSE BigFromDigits(digits)
      M == IF exp >= 0 THEN <<1>> ELSE BigMulPow10(<<1>>, -exp)
  IN IF L > 310 THEN Infinity
     ELSE IF L < -323 THEN Zero
     ELSE Round(DivBits(IF s >= 0 THEN BigMulPow2(N, s) ELSE N,
                        IF s >= 0 THEN M ELSE BigMulPow2(M, -s), 0, 59), s)

\* The digits of the double d as a decimal, and the place of its point:
\* the value is 0.digits * 10^n.
Exact(d) ==
  LET Decimal(raw) ==
        [s |-> StripZerosEnd(raw), n |-> Len(raw) + (IF d.e >= 0 THEN 0 ELSE d.e)]
  IN Decimal(BigToDigits(IF d.e >= 0 THEN BigMulPow2(d.m, d.e) ELSE BigMulPow5(d.m, -d.e)))

\* The first k digits of the decimal x, rounded down and up.
Below(x, k) == [s |-> StripZerosEnd(SubSeq(x.s, 1, k)), n |-> x.n]
Above(x, k) ==
  LET Decimal(up) == [s |-> StripZerosEnd(up), n |-> x.n + (Len(up) - k)]
  IN Decimal(BigToDigits(BigAddSmall(BigFromDigits(SubSeq(x.s, 1, k)), 1)))

ReadsAs(c, d) == ToDouble(c.s, c.n - Len(c.s)) = d

\* The decimal x is nearer to Above(x, k) than to Below(x, k); of two
\* equally near the one with the even last digit is taken.
NearerAbove(x, k) ==
  LET next == DigitValue(Ch(x.s, k + 1)) IN
  \/ next > 5
  \/ /\ next = 5
     /\ \/ Len(x.s) > k + 1
        \/ DigitValue(Ch(x.s, k)) % 2 = 1

\* The decimal of the fewest digits (k or more) that reads as the double d,
\* the nearest to d's value x if there are two: fits are those of Below(x, k)
\* and Above(x, k) that read as d.
RECURSIVE Shortest(_, _, _)
RECURSIVE Nearest(_, _, _, _)
Nearest(d, x, k, fits) ==
  IF fits = {} THEN Shortest(d, x, k + 1)
  ELSE IF Cardinality(fits) = 1 THEN CHOOSE c \in fits : TRUE
  ELSE IF NearerAbove(x, k) THEN Above(x, k) ELSE Below(x, k)

Shortest(d, x, k) ==
  IF k >= Len(x.s) THEN x
  ELSE Nearest(d, x, k, {c \in {Below(x, k), Above(x, k)} : ReadsAs(c, d)})

RECURSIVE Zeros(_)
Zeros(n) == IF n = 0 THEN "" ELSE "0" \o Zeros(n - 1)

\* Number::toString of the decimal 0.s * 10^n.
DecimalText(s, n) ==
  LET k == Len(s) IN
  IF k <= n /\ n <= 21 THEN s \o Zeros(n - k)
  ELSE IF 0 < n /\ n <= 21 THEN SubSeq(s, 1, n) \o "." \o SubSeq(s, n + 1, k)
  ELSE IF -6 < n /\ n <= 0 THEN "0." \o Zeros(-n) \o s
  ELSE (IF k = 1 THEN s ELSE Ch(s, 1) \o "." \o SubSeq(s, 2, k))
       \o (IF n - 1 < 0 THEN "e-" \o NumToString(1 - n) ELSE "e+" \o NumToString(n - 1))

\* String(x) of the double d, negated if neg.
NumberText(neg, d) ==
  CASE d.k = "zero" -> "0"
    [] d.k = "inf" -> IF neg THEN "-Infinity" ELSE "Infinity"
    [] d.k = "fin" -> LET Text(c) == (IF neg THEN "-" ELSE "") \o DecimalText(c.s, c.n)
                      IN Text(Shortest(d, Exact(d), 1))

\* The exponent a numeral's digits after e name; beyond six digits every
\* exponent gives zero or infinity.
ExponentValue(digits) ==
  LET ds == StripZeros(digits) IN IF Len(ds) > 6 THEN 1000000 ELSE DigitsValue(ds)

\* The number a numeral stands for: its sign, the digits before and after
\* the point, the sign and the digits of the exponent.
NumeralValue(neg, int, frac, expNeg, expDigits) ==
  LET all == StripZeros(int \o frac)
      sig == StripZerosEnd(all)
      exp == (IF expNeg THEN -ExponentValue(expDigits) ELSE ExponentValue(expDigits))
               - Len(frac) + (Len(all) - Len(sig))
  IN [t |-> "num",
      d |-> IF sig = "" THEN "0" ELSE NumberText(neg, ToDouble(sig, exp))]

(***************************************************************************)
(* JSON.parse.  A parse result is [ok, val, pos]: ok = FALSE is the thrown *)
(* SyntaxError, pos the index of the first unread character.  Values are   *)
(* tagged: null, bool, num, str, arr (a sequence of values), obj (its keys *)
(* and values in order of appearance).                                     *)
(***************************************************************************)
Fail == [ok |-> FALSE, val |-> [t |-> "null"], pos |-> 0]
Ok(v, p) == [ok |-> TRUE, val |-> v, pos |-> p]

RECURSIVE SkipWs(_, _)
SkipWs(s, i) ==
  IF i <= Len(s) /\ Ch(s, i) \in {" ", "\n", "\t", "\r"} THEN SkipWs(s, i + 1) ELSE i

HasAt(s, i, lit) == i + Len(lit) - 1 <= Len(s) /\ SubSeq(s, i, i + Len(lit) - 1) = lit

\* The number of consecutive backslashes that end right before position j,
\* counted back no further than position i.
BackslashRun(s, i, j) ==
  CHOOSE k \in 0..(j - i) :
    /\ \A m \in 1..k : Ch(s, j - m) = "\\"
    /\ (k = j - i \/ Ch(s, j - k - 1) # "\\")

\* The character at j follows an escaping backslash.
IsEscaped(s, i, j) == BackslashRun(s, i, j) % 2 = 1

\* The value of a hexadecimal digit; 16 for another character.
HexValue(c) ==
  IF \E d \in 0..9 : c = Digit(d) THEN CHOOSE d \in 0..9 : c = Digit(d)
  ELSE IF \E d \in 1..6 : c = Ch("abcdef", d) THEN 9 + CHOOSE d \in 1..6 : c = Ch("abcdef", d)
  ELSE IF \E d \in 1..6 : c = Ch("ABCDEF", d) THEN 9 + CHOOSE d \in 1..6 : c = Ch("ABCDEF", d)
  ELSE 16

\* The code unit the four characters after position j name.
CodeUnit(s, j) ==
  4096 * HexValue(Ch(s, j + 1)) + 256 * HexValue(Ch(s, j + 2))
    + 16 * HexValue(Ch(s, j + 3)) + HexValue(Ch(s, j + 4))

\* The character of a code unit.  It has no value for a code unit that no
\* text of this module holds (0, 96, 256 and above): the model does not
\* say what a text with an escape that names one is parsed to.
FromCodeUnit(u) ==
  CASE u \in 1..95 -> Ch(LowChars, u)
    [] u \in 97..255 -> Ch(HighChars, u - 96)

\* The character at j is one of the four that follow the u of an escape.
InCodeUnit(s, i, j) ==
  \E m \in 1..4 : j - m >= i /\ Ch(s, j - m) = "u" /\ IsEscaped(s, i, j - m)

\* What the character at j of a string literal that starts at i stands for:
\* nothing for an escaping backslash and for the digits of a \u escape, the
\* escaped character after a backslash.
Unescaped(s, i, j) ==
  LET c == Ch(s, j) IN
  IF IsEscaped(s, i, j)
    THEN CASE c = "n" -> "\n"
           [] c = "t" -> "\t"
           [] c = "f" -> "\f"
           [] c = "r" -> "\r"
           [] c = "b" -> FromCodeUnit(8)
           [] c = "u" -> FromCodeUnit(CodeUnit(s, j))
           [] OTHER -> c
    ELSE IF c = "\\" \/ InCodeUnit(s, i, j) THEN "" ELSE c

RECURSIVE UnescapeRange(_, _, _, _)
UnescapeRange(s, i, lo, hi) ==
  IF lo > hi THEN ""
  ELSE IF lo = hi THEN Unescaped(s, i, lo)
  ELSE LET mid == (lo + hi) \div 2
       IN UnescapeRange(s, i, lo, mid) \o UnescapeRange(s, i, mid + 1, hi)

HasBackslash(s, lo, hi) == \E j \in lo..hi : Ch(s, j) = "\\"

\* The quotes in s[i..hi] that are not escaped, for a string literal whose
\* first character is at i.
ClosingQuotes(s, i, hi) == {j \in i..hi : Ch(s, j) = "\"" /\ ~IsEscaped(s, i, j)}

\* The stretch of text searched first for the end of a string literal (the
\* rest is searched when it holds none).
ScanWindow == 48

\* The escape whose character after the backslash is at j is one of JSON's:
\* \" \\ \/ \b \f \n \r \t, or \u and four hexadecimal digits before e.
ValidEscape(s, j, e) ==
  \/ Ch(s, j) \in {"\"", "\\", "/", "b", "f", "n", "r", "t"}
  \/ /\ Ch(s, j) = "u"
     /\ j + 4 < e
     /\ \A m \in 1..4 : HexValue(Ch(s, j + m)) < 16

\* A string literal whose first character (after the opening quote) is at
\* i: it ends at the first quote that is not escaped; a control character
\* in it, or a backslash that starts none of JSON's escapes, is a syntax
\* error.
ParseChars(s, i) ==
  LET near == ClosingQuotes(s, i, IF i + ScanWindow < Len(s) THEN i + ScanWindow ELSE Len(s))
      closing == IF near # {} THEN near ELSE ClosingQuotes(s, i, Len(s)) IN
  IF closing = {} THEN Fail
  ELSE LET e == CHOOSE j \in closing : \A j2 \in closing : j <= j2 IN
    IF \E j \in i..(e - 1) :
         \/ Ch(s, j) \in ControlChars
         \/ IsEscaped(s, i, j) /\ ~ValidEscape(s, j, e)
      THEN Fail
      ELSE Ok([t |-> "str",
               s |-> IF HasBackslash(s, i, e - 1)
                       THEN UnescapeRange(s, i, i, e - 1)
                       ELSE SubSeq(s, i, e - 1)],
              e + 1)

\* The position after the decimal digits that start at i.
ParseDigits(s, i) ==
  CHOOSE j \in i..(Len(s) + 1) :
    /\ j > Len(s) \/ \A d \in 0..9 : Ch(s, j) # Digit(d)
    /\ \A m \in i..(j - 1) : \E d \in 0..9 : Ch(s, m) = Digit(d)

\* A numeral at i: -? (0 | digits without a leading zero) (. digits)?
\* ((e | E) (+ | -)? digits)?
ParseNumber(s, i) ==
  LET neg == HasAt(s, i, "-")
      a == IF neg THEN i + 1 ELSE i
      b == IF HasAt(s, a, "0") THEN a + 1 ELSE ParseDigits(s, a)
      point == HasAt(s, b, ".")
      c == IF point THEN ParseDigits(s, b + 1) ELSE b
      e == HasAt(s, c, "e") \/ HasAt(s, c, "E")
      expNeg == e /\ HasAt(s, c + 1, "-")
      f == IF e THEN (IF expNeg \/ HasAt(s, c + 1, "+") THEN c + 2 ELSE c + 1) ELSE c
      g == IF e THEN ParseDigits(s, f) ELSE c
  IN IF b = a \/ (point /\ c = b + 1) \/ (e /\ g = f) THEN Fail
     ELSE Ok(NumeralValue(neg, SubSeq(s, a, b - 1),
                          IF point THEN SubSeq(s, b + 1, c - 1) ELSE "",
                          expNeg, SubSeq(s, f, g - 1)),
             g)

RECURSIVE ParseValue(_, _)
RECURSIVE ParseElems(_, _, _)
RECURSIVE ParseMembers(_, _, _, _)

\* Elements of an array after the first: "," value ... "]".
ParseElems(s, i0, acc) ==
  LET i == SkipWs(s, i0) IN
  IF HasAt(s, i, "]") THEN Ok([t |-> "arr", a |-> acc], i + 1)
  ELSE IF HasAt(s, i, ",") THEN
    LET r == ParseValue(s, i + 1) IN
    IF r.ok THEN ParseElems(s, r.pos, Append(acc, r.val)) ELSE Fail
  ELSE Fail

\* One member "key": value at i0, then "," member ... "}".
ParseMembers(s, i0, ks, vs) ==
  LET i == SkipWs(s, i0) IN
  IF ~HasAt(s, i, "\"") THEN Fail
  ELSE LET k == ParseChars(s, i + 1) IN
    IF ~k.ok THEN Fail
    ELSE LET j == SkipWs(s, k.pos) IN
      IF ~HasAt(s, j, ":") THEN Fail
      ELSE LET r == ParseValue(s, j + 1) IN
        IF ~r.ok THEN Fail
        ELSE LET e == SkipWs(s, r.pos)
                 ks2 == Append(ks, k.val.s)
                 vs2 == Append(vs, r.val) IN
          IF HasAt(s, e, "}") THEN Ok([t |-> "obj", k |-> ks2, v |-> vs2], e + 1)
          ELSE IF HasAt(s, e, ",") THEN ParseMembers(s, e + 1, ks2, vs2)
          ELSE Fail

ParseValue(s, i0) ==
  LET i == SkipWs(s, i0) IN
  IF HasAt(s, i, "null") THEN Ok([t |-> "null"], i + 4)
  ELSE IF HasAt(s, i, "true") THEN Ok([t |-> "bool", b |-> TRUE], i + 4)
  ELSE IF HasAt(s, i, "false") THEN Ok([t |-> "bool", b |-> FALSE], i + 5)
  ELSE IF HasAt(s, i, "\"") THEN ParseChars(s, i + 1)
  ELSE IF HasAt(s, i, "[") THEN
    LET j == SkipWs(s, i + 1) IN
    IF HasAt(s, j, "]") THEN Ok([t |-> "arr", a |-> <<>>], j + 1)
    ELSE LET r == ParseValue(s, j) IN
      IF r.ok THEN ParseElems(s, r.pos, <<r.val>>) ELSE Fail
  ELSE IF HasAt(s, i, "{") THEN
    LET j == SkipWs(s, i + 1) IN
    IF HasAt(s, j, "}") THEN Ok([t |-> "obj", k |-> <<>>, v |-> <<>>], j + 1)
    ELSE ParseMembers(s, j, <<>>, <<>>)
  ELSE ParseNumber(s, i)


(***************************************************************************)
(* What the load effect and the first render make of a parsed value.       *)
(***************************************************************************)
EntryKeys == <<"id", "date", "transcript", "imageUrl", "prompt", "style">>
StyleKeys == <<"thickness", "color", "artStyle">>

IsStyleValue(v) ==
  /\ v.t = "obj"
  /\ v.k = StyleKeys
  /\ \A i \in 1..3 : v.v[i].t = "str"

IsEntryValue(v) ==
  /\ v.t = "obj"
  /\ v.k = EntryKeys
  /\ \A i \in 1..5 : v.v[i].t = "str"
  /\ IsStyleValue(v.v[6])

\* The parsed value is an array of DoodleEntry objects (types.ts).
IsHistoryValue(v) == v.t = "arr" /\ \A i \in DOMAIN v.a : IsEntryValue(v.a[i])

ToStyle(v) ==
  [thickness |-> v.v[1].s, color |-> v.v[2].s, artStyle |-> v.v[3].s]

ToEntry(v) ==
  [id |-> v.v[1].s, date |-> v.v[2].s, transcript |-> v.v[3].s,
   imageUrl |-> v.v[4].s, prompt |-> v.v[5].s, style |-> ToStyle(v.v[6])]

\* Variant of ToHistory: the loaded entries in the opposite order.
ToHistoryReversed(v) == [i \in DOMAIN v.a |-> ToEntry(v.a[Len(v.a) + 1 - i])]

ToHistory(v) == [i \in DOMAIN v.a |-> ToEntry(v.a[i])]

\* o[key] of a parsed value: None is undefined.  Of an object's members of
\* one name JSON.parse keeps the last; the other values (numbers, booleans,
\* strings, arrays) have none of the names the page reads but length.
Member(o, key) ==
  IF o.t # "obj" THEN None
  ELSE LET at == {i \in DOMAIN o.k : o.k[i] = key} IN
    IF at = {} THEN None
    ELSE Some(o.v[CHOOSE i \in at : \A j \in at : j <= i])

\* React does not render a plain object as a child, alone or inside an
\* array.
RECURSIVE InvalidChild(_)
InvalidChild(v) ==
  \/ v.t = "obj"
  \/ v.t = "arr" /\ \E i \in DOMAIN v.a : InvalidChild(v.a[i])

\* {entry[key]}: undefined renders as nothing.
ChildThrows(e, key) == Member(e, key) # None /\ InvalidChild(Member(e, key)[1])

\* entry.style is undefined or null: HistoryRow's entry.style.artStyle throws.
StyleMissing(e) == Member(e, "style") = None \/ Member(e, "style")[1].t = "null"

\* Rendering the row of the element e throws: entry.id on null, a missing
\* style, or an object as entry.date, entry.style.artStyle or
\* entry.transcript.
RowThrows(e) ==
  \/ e.t = "null"
  \/ StyleMissing(e)
  \/ ChildThrows(e, "date")
  \/ ChildThrows(Member(e, "style")[1], "artStyle")
  \/ ChildThrows(e, "transcript")

\* Rendering App with history = v throws: history.length on null,
\* history.map on a value that has no map (anything but an array whose
\* length is not 0), or a row that throws.
RenderThrows(v) ==
  CASE v.t = "null" -> TRUE
    [] v.t \in {"num", "bool"} -> TRUE
    [] v.t = "str" -> v.s # ""
    [] v.t = "obj" -> Member(v, "length") # Some([t |-> "num", d |-> "0"])
    [] v.t = "arr" -> \E i \in DOMAIN v.a : RowThrows(v.a[i])

(***************************************************************************)
(* JSON.stringify of a parsed value, as the persist effect writes a loaded *)
(* history that is not an entry array.  An object's members come out once  *)
(* each, the array-index names first in ascending order, then the others   *)
(* in order of first appearance.                                           *)
(***************************************************************************)
IsDigits(k) == \A i \in 1..Len(k) : \E d \in 0..9 : Ch(k, i) = Digit(d)

DigitAt(k, i) == CHOOSE d \in 0..9 : Digit(d) = Ch(k, i)

\* a < b for two canonical decimal strings, compared as numbers.
DigitsLess(a, b) ==
  \/ Len(a) < Len(b)
  \/ /\ Len(a) = Len(b)
     /\ \E i \in 1..Len(a) :
          /\ DigitAt(a, i) < DigitAt(b, i)
          /\ \A j \in 1..(i - 1) : Ch(a, j) = Ch(b, j)

\* The canonical decimal strings of 0 .. 2^32 - 2.
IsIndexKey(k) ==
  /\ Len(k) > 0
  /\ IsDigits(k)
  /\ (Len(k) > 1 => Ch(k, 1) # "0")
  /\ DigitsLess(k, "4294967295")

\* The positions of o's members in the order of Object.keys(o).
RECURSIVE IndexOrder(_, _)
IndexOrder(o, at) ==
  IF at = {} THEN <<>>
  ELSE LET i == CHOOSE i \in at : \A j \in at \ {i} : DigitsLess(o.k[i], o.k[j])
       IN <<i>> \o IndexOrder(o, at \ {i})

RECURSIVE InsertionOrder(_)
InsertionOrder(at) ==
  IF at = {} THEN <<>>
  ELSE LET i == CHOOSE i \in at : \A j \in at : i <= j
       IN <<i>> \o InsertionOrder(at \ {i})

KeyOrder(o) ==
  LET first == {i \in DOMAIN o.k : \A j \in 1..(i - 1) : o.k[j] # o.k[i]}
      index == {i \in first : IsIndexKey(o.k[i])}
  IN IndexOrder(o, index) \o InsertionOrder(first \ index)

\* The value JSON.parse builds: an object has each of its names once, in
\* the order of Object.keys, with the value of the name's last member.
RECURSIVE Normalize(_)
Normalize(v) ==
  CASE v.t = "arr" -> [t |-> "arr", a |-> [i \in DOMAIN v.a |-> Normalize(v.a[i])]]
    [] v.t = "obj" ->
         LET order == KeyOrder(v) IN
         [t |-> "obj",
          k |-> [n \in DOMAIN order |-> v.k[order[n]]],
          v |-> [n \in DOMAIN order |-> Normalize(Member(v, v.k[order[n]])[1])]]
    [] OTHER -> v

\* JSON.parse(text): one value, then only whitespace up to the end.
JSONparse(text) ==
  LET Whole(r) ==
        IF r.ok /\ SkipWs(text, r.pos) = Len(text) + 1
          THEN [ok |-> TRUE, val |-> Normalize(r.val), pos |-> r.pos]
          ELSE Fail
  IN Whole(ParseValue(text, 1))

RECURSIVE StringifyValue(_)
RECURSIVE StringifyValues(_)
RECURSIVE StringifyMembers(_, _)

StringifyValues(a) ==
  IF a = <<>> THEN ""
  ELSE IF Len(a) = 1 THEN StringifyValue(a[1])
  ELSE StringifyValue(a[1]) \o "," \o StringifyValues(Tail(a))

StringifyMembers(o, order) ==
  IF order = <<>> THEN ""
  ELSE LET key == o.k[Head(order)]
           one == Quote(key) \o ":" \o StringifyValue(Member(o, key)[1])
       IN IF Len(order) = 1 THEN one
          ELSE one \o "," \o StringifyMembers(o, Tail(order))

StringifyValue(v) ==
  CASE v.t = "null" -> "null"
    [] v.t = "bool" -> IF v.b THEN "true" ELSE "false"
    [] v.t = "num" -> IF v.d \in {"Infinity", "-Infinity"} THEN "null" ELSE v.d
    [] v.t = "str" -> Quote(v.s)
    [] v.t = "arr" -> "[" \o StringifyValues(v.a) \o "]"
    [] v.t = "obj" -> "{" \o StringifyMembers(v, KeyOrder(v)) \o "}"

(***************************************************************************)
(* Program constants.                                                      *)
(***************************************************************************)
GenerateError == "Failed to generate doodle. Please try again."
ExportError == "Failed to create archive. Please try again."
VoiceStartError == "Failed to start voice session. Please ensure microphone permissions are granted."
VoiceConnectionError == "Voice connection error. Please check your microphone."
DefaultPrompt == "A simple doodle of a peaceful day."
DataUriPrefix == "data:image/png;base64,"
InitialStyle == [thickness |-> "Medium", color |-> "Black", artStyle |-> "Minimalist"]

(***************************************************************************)
(* Inputs of the model: what the user types and picks, what the gateway    *)
(* answers, what the storage holds before the first start.                 *)
(***************************************************************************)
\* Textarea contents: empty, whitespace only, and text with surrounding
\* whitespace and characters JSON has to escape.
Transcripts == {"", " \n", " say \"hi\" \\o/ "}

ThicknessChoices == {"Medium", "Bold"}
ColorChoices == {"Black"}
ArtStyleChoices == {"Minimalist"}

\* response.text of the visual-prompt call: undefined, empty, or a prompt.
PicnicPrompt == "A Minimalist doodle of a picnic"
PromptTexts == {None, Some(""), Some(PicnicPrompt)}

TextPart == [inlineData |-> None]
InlinePart(d) == [inlineData |-> Some([data |-> d])]

\* response.candidates?.[0]?.content?.parts || [] of the image call.
ImageParts ==
  { <<>>,
    <<TextPart>>,
    <<TextPart, InlinePart("QUJD")>>,
    <<InlinePart("QUJD"), InlinePart("eHl6")>> }

\* message.serverContent.inputTranscription.text of the messages of a voice
\* session.
Fragments == {"Had ", "a picnic"}

\* localStorage['doodle_history'] before the first start: absent, the empty
\* string, text that is not JSON, JSON that is not an entry array, and the
\* empty array.
InitialBlobs ==
  { None, Some(""), Some("[{\"id\":"), Some("{}"), Some("null"),
    Some("[null]"), Some("[]") }

(***************************************************************************)
(* State.                                                                  *)
(***************************************************************************)
VARIABLES
  app,            \* "stopped" | "loading" (mounted, the loaded history not rendered yet)
                  \* | "running" | "crashed" (a render threw: React unmounted the tree)
  storage,        \* localStorage.getItem('doodle_history'): None or Some(text)
  clock,          \* the time: what Date.now() and new Date() read
  transcript,     \* useState('')
  isGenerating,   \* useState(false)
  currentDoodle,  \* useState<DoodleEntry | null>(null): None or Some(entry)
  history,        \* useState<DoodleEntry[]>([])
  error,          \* useState<string | null>(null): None or Some(message)
  style,          \* useState<DoodleStyle>
  inflight,       \* the handleGenerateDoodle calls suspended at an await, each with
                  \* its locals and the service calls it has issued
  atClose,        \* history in memory when the application was last closed (for
                  \* the restart round trip)
  pending,        \* the setHistory(parsed) of the load effect that no render has
                  \* applied yet: None or Some(parsed value)
  isExporting,    \* useState(false)
  exporting,      \* the handleExportArchive calls suspended at zip.generateAsync
  download,       \* the last file the page handed to the browser: None or Some(file)
  calledOnEmpty,  \* handleExportArchive has been called with an empty history since the start
  isRecording,    \* useState(false)
  voiceSessionRef,\* useRef(null): None or Some(number of the session whose stop handle it holds)
  sessions,       \* the connectVoice calls made since the start, in order
  stopping        \* the handleStopRecording calls suspended in stop(), by session number

\* The state of the archive export, and that of voice recording.
exportVars == <<isExporting, exporting, download, calledOnEmpty>>
voiceVars == <<isRecording, voiceSessionRef, sessions, stopping>>

vars == <<app, storage, clock, transcript, isGenerating, currentDoodle,
          history, error, style, inflight, atClose, pending, exportVars, voiceVars>>

\* The component state, as useState initialises it.
InitialMemory ==
  /\ transcript' = ""
  /\ isGenerating' = FALSE
  /\ currentDoodle' = None
  /\ history' = <<>>
  /\ error' = None
  /\ style' = InitialStyle
  /\ inflight' = <<>>
  /\ isExporting' = FALSE
  /\ exporting' = <<>>
  /\ download' = None
  /\ calledOnEmpty' = FALSE
  /\ isRecording' = FALSE
  /\ voiceSessionRef' = None
  /\ sessions' = <<>>
  /\ stopping' = <<>>

\* Before the first start: nothing is mounted, the clock is at its first
\* reading.
Unmounted ==
  /\ app = "stopped"
  /\ clock = 0
  /\ transcript = ""
  /\ isGenerating = FALSE
  /\ currentDoodle = None
  /\ history = <<>>
  /\ error = None
  /\ style = InitialStyle
  /\ inflight = <<>>
  /\ atClose = None
  /\ pending = None
  /\ isExporting = FALSE
  /\ exporting = <<>>
  /\ download = None
  /\ calledOnEmpty = FALSE
  /\ isRecording = FALSE
  /\ voiceSessionRef = None
  /\ sessions = <<>>
  /\ stopping = <<>>

Init ==
  /\ storage \in InitialBlobs
  /\ Unmounted


(***************************************************************************)
(* The gateway's two request/response calls, as the service wraps them.    *)
(***************************************************************************)
\* generateVisualPrompt: response.text || "A simple doodle of a peaceful day."
generateVisualPrompt(text) ==
  IF text = None \/ text[1] = "" THEN DefaultPrompt ELSE text[1]

\* generateDoodle: the data URI of the first part that has inlineData, ""
\* when no part has.
RECURSIVE generateDoodle(_)
generateDoodle(parts) ==
  IF parts = <<>> THEN ""
  ELSE IF Head(parts).inlineData # None
    THEN DataUriPrefix \o Head(parts).inlineData[1].data
    ELSE generateDoodle(Tail(parts))

\* new Date().toLocaleDateString(...): the calendar day of the reading.
toLocaleDateString(t) == "Day " \o NumToString(t \div ReadingsPerDay)

\* Variant of NewEntry: the entry takes the input and the style the page
\* shows when the image arrives.
NewEntryCurrent(now, chain, imageUrl) ==
  [id |-> NumToString(now),
   date |-> toLocaleDateString(now),
   transcript |-> transcript,
   imageUrl |-> imageUrl,
   prompt |-> chain.prompt,
   style |-> style]

\* The entry literal of handleGenerateDoodle, built from the handler's own
\* transcript and style (those of the render that was clicked).
NewEntry(now, chain, imageUrl) ==
  [id |-> NumToString(now),
   date |-> toLocaleDateString(now),
   transcript |-> chain.transcript,
   imageUrl |-> imageUrl,
   prompt |-> chain.prompt,
   style |-> chain.style]

\* Variant of addEntry: the entry goes to the end.
addEntryLast(prev, newEntry) == Append(prev, newEntry)

\* setHistory(prev => [newEntry, ...prev])
addEntry(prev, newEntry) == <<newEntry>> \o prev

\* Variant of removeEntry: the filter's test inverted.
removeEntryInverted(prev, id) == SelectSeq(prev, LAMBDA e : e.id = id)

\* setHistory(prev => prev.filter(e => e.id !== id))
removeEntry(prev, id) == SelectSeq(prev, LAMBDA e : e.id # id)

\* Variant of clearCurrent: the displayed entry is never cleared.
clearCurrentNever(cur, id) == cur

\* if (currentDoodle?.id === id) setCurrentDoodle(null)
clearCurrent(cur, id) == IF cur # None /\ cur[1].id = id THEN None ELSE cur

\* Variant of persistEffect: an effect that runs with the history of the
\* first render only.
persistEffectFirstRender(h) == Some(JSONstringify(<<>>))

\* The persist effect: localStorage.setItem('doodle_history', JSON.stringify(history)),
\* run after every render in which history is a new array.
persistEffect(h) == Some(JSONstringify(h))

\* Variant of GenerateDisabled: the button ignores isGenerating.
GenerateDisabledBlankOnly == trim(transcript) = ""

\* disabled={!transcript.trim() || isGenerating}
GenerateDisabled == trim(transcript) = "" \/ isGenerating

Remove(seq, i) == SubSeq(seq, 1, i - 1) \o SubSeq(seq, i + 1, Len(seq))

(***************************************************************************)
(* Start and close of the application.                                     *)
(***************************************************************************)
\* Mount, up to the end of the first commit's effects: the first render
\* (empty history), the load effect, which hands a stored text that parses
\* to setHistory, and the persist effect of the first render, which writes
\* the empty history.  Without a setHistory call the mount is complete.
Start ==
  /\ app = "stopped"
  /\ LET saved == storage
         truthy == saved # None /\ saved[1] # ""
         parsed == IF truthy THEN JSONparse(saved[1]) ELSE Fail
     IN IF truthy /\ parsed.ok
          THEN /\ app' = "loading"
               /\ pending' = Some(parsed.val)
               /\ atClose' = atClose
          ELSE /\ app' = "running"
               /\ pending' = None
               /\ atClose' = None
  /\ history' = <<>>
  /\ storage' = persistEffect(<<>>)
  /\ transcript' = ""
  /\ isGenerating' = FALSE
  /\ currentDoodle' = None
  /\ error' = None
  /\ style' = InitialStyle
  /\ inflight' = <<>>
  /\ UNCHANGED <<clock, exportVars, voiceVars>>

\* The render of the loaded history, and its persist effect.  A render
\* that throws unmounts the tree: its effects never run, the storage keeps
\* what the first persist effect wrote.  A value that is not an entry array
\* and renders is the history from then on, as it was parsed (the handlers
\* below are modelled for entry arrays only).
LoadRender ==
  /\ app = "loading"
  /\ LET v == pending[1] IN
       IF RenderThrows(v)
         THEN /\ app' = "crashed"
              /\ history' = <<>>
              /\ storage' = storage
         ELSE /\ app' = "running"
              /\ IF IsHistoryValue(v)
                   THEN /\ history' = ToHistory(v)
                        /\ storage' = persistEffect(ToHistory(v))
                   ELSE /\ history' = v
                        /\ storage' = Some(StringifyValue(v))
  /\ pending' = None
  /\ atClose' = None
  /\ UNCHANGED <<clock, transcript, isGenerating, currentDoodle, error, style,
                 inflight, exportVars, voiceVars>>

\* The page is closed or reloaded: the component state and every suspended
\* handler are gone, the storage stays.  The history in memory at the close
\* is noted: the one of the last render, which before the render of the
\* loaded history is the empty one of the first.
Close ==
  /\ app \in {"loading", "running", "crashed"}
  /\ app' = "stopped"
  /\ atClose' = IF app \in {"loading", "running"} THEN Some(history) ELSE None
  /\ pending' = None
  /\ InitialMemory
  /\ UNCHANGED <<storage, clock>>

\* Time passes: the next reading of the clock is a later one.
Tick(limit) ==
  /\ clock < limit
  /\ clock' = clock + 1
  /\ UNCHANGED <<app, storage, transcript, isGenerating, currentDoodle, history,
                 error, style, inflight, atClose, pending, exportVars, voiceVars>>

(***************************************************************************)
(* Input and style controls.                                               *)
(***************************************************************************)
\* onChange={(e) => setTranscript(e.target.value)}
EditTranscript(text) ==
  /\ app = "running"
  /\ transcript' = text
  /\ UNCHANGED <<app, storage, clock, isGenerating, currentDoodle, history,
                 error, style, inflight, atClose, pending, exportVars, voiceVars>>

\* Variant of SetStyle: the style object is changed in place, and with it
\* the style of every entry that refers to it.
SetStyleInPlace(st) ==
  /\ app = "running"
  /\ style' = st
  /\ history' = [i \in DOMAIN history |->
                   IF history[i].style = style THEN [history[i] EXCEPT !.style = st]
                                               ELSE history[i]]
  /\ UNCHANGED <<app, storage, clock, transcript, isGenerating, currentDoodle,
                 error, inflight, atClose, pending, exportVars, voiceVars>>

\* setStyle(next): a new style object replaces the old one.
SetStyle(st) ==
  /\ app = "running"
  /\ style' = st
  /\ UNCHANGED <<app, storage, clock, transcript, isGenerating, currentDoodle,
                 history, error, inflight, atClose, pending, exportVars, voiceVars>>

\* setStyle({ ...style, thickness: t })
SetThickness(t) == SetStyle([style EXCEPT !.thickness = t])

\* setStyle({ ...style, artStyle: e.target.value })
SetArtStyle(a) == SetStyle([style EXCEPT !.artStyle = a])

\* setStyle({ ...style, color: c })
SetColor(c) == SetStyle([style EXCEPT !.color = c])

(***************************************************************************)
(* Generation.                                                             *)
(***************************************************************************)
\* gemini.generateVisualPrompt(transcript, style), as the handler issues it.
promptCall(t, st) == [fn |-> "generateVisualPrompt", args |-> <<t, st>>]

\* Variant of imageCall: the image is asked for the journal text.
imageCallOfTranscript(chain, visualPrompt) ==
  [fn |-> "generateDoodle", args |-> <<chain.transcript>>]

\* gemini.generateDoodle(visualPrompt), as the handler issues it.
imageCall(chain, visualPrompt) == [fn |-> "generateDoodle", args |-> <<visualPrompt>>]

\* handleGenerateDoodle up to its first await: the guard, the two state
\* updates, and the visual-prompt call issued with the handler's transcript
\* and style.
handleGenerateDoodle ==
  IF trim(transcript) = ""
    THEN UNCHANGED vars
    ELSE /\ Len(inflight) < MaxInflight
         /\ isGenerating' = TRUE
         /\ error' = None
         /\ inflight' = Append(inflight, [pc |-> "prompt", transcript |-> transcript,
                                          style |-> style, prompt |-> "",
                                          calls |-> <<promptCall(transcript, style)>>])
         /\ UNCHANGED <<app, storage, clock, transcript, currentDoodle, history,
                        style, atClose, pending, exportVars, voiceVars>>

\* A click on "Sketch My Day": a disabled button delivers no click.
ClickGenerate ==
  /\ app = "running"
  /\ ~GenerateDisabled
  /\ handleGenerateDoodle

\* The visual-prompt call resolves: the image call is issued with the prompt.
PromptResolve(i, text) ==
  /\ app = "running"
  /\ i \in DOMAIN inflight
  /\ inflight[i].pc = "prompt"
  /\ inflight' = [inflight EXCEPT
                    ![i].pc = "image",
                    ![i].prompt = generateVisualPrompt(text),
                    ![i].calls = Append(@, imageCall(inflight[i], generateVisualPrompt(text)))]
  /\ UNCHANGED <<app, storage, clock, transcript, isGenerating, currentDoodle,
                 history, error, style, atClose, pending, exportVars, voiceVars>>

\* Variant of GenerateFails: no finally block.
GenerateFailsNoFinally(i) ==
  /\ error' = Some(GenerateError)
  /\ inflight' = Remove(inflight, i)
  /\ UNCHANGED <<app, storage, clock, transcript, isGenerating, currentDoodle,
                 history, style, atClose, pending, exportVars, voiceVars>>

\* Either call rejects: catch, then finally.
GenerateFails(i) ==
  /\ error' = Some(GenerateError)
  /\ isGenerating' = FALSE
  /\ inflight' = Remove(inflight, i)
  /\ UNCHANGED <<app, storage, clock, transcript, currentDoodle, history,
                 style, atClose, pending, exportVars, voiceVars>>

PromptReject(i) ==
  /\ app = "running"
  /\ i \in DOMAIN inflight
  /\ inflight[i].pc = "prompt"
  /\ GenerateFails(i)

ImageReject(i) ==
  /\ app = "running"
  /\ i \in DOMAIN inflight
  /\ inflight[i].pc = "image"
  /\ GenerateFails(i)

\* Variant of GenerateSucceeds: the input transcript is left as it is.
GenerateSucceedsKeepsInput(i, newEntry) ==
  /\ currentDoodle' = Some(newEntry)
  /\ history' = addEntry(history, newEntry)
  /\ storage' = persistEffect(addEntry(history, newEntry))
  /\ isGenerating' = FALSE
  /\ inflight' = Remove(inflight, i)
  /\ UNCHANGED <<app, transcript, error, style, atClose, pending, exportVars, voiceVars>>

\* Both calls resolved: the three state updates, then finally, then the
\* persist effect of the render that follows.
GenerateSucceeds(i, newEntry) ==
  /\ currentDoodle' = Some(newEntry)
  /\ history' = addEntry(history, newEntry)
  /\ storage' = persistEffect(addEntry(history, newEntry))
  /\ transcript' = ""
  /\ isGenerating' = FALSE
  /\ inflight' = Remove(inflight, i)
  /\ UNCHANGED <<app, error, style, atClose, pending, exportVars, voiceVars>>

\* The image call resolves: the entry is built from a fresh Date.now()
\* reading and stored.
ImageResolve(i, parts) ==
  /\ app = "running"
  /\ i \in DOMAIN inflight
  /\ inflight[i].pc = "image"
  /\ clock' = clock + 1
  /\ GenerateSucceeds(i, NewEntry(clock + 1, inflight[i], generateDoodle(parts)))

(***************************************************************************)
(* History rows.                                                           *)
(***************************************************************************)
\* onClick={() => setCurrentDoodle(entry)}
SelectEntry(i) ==
  /\ app = "running"
  /\ i \in DOMAIN history
  /\ currentDoodle' = Some(history[i])
  /\ UNCHANGED <<app, storage, clock, transcript, isGenerating, history,
                 error, style, inflight, atClose, pending, exportVars, voiceVars>>

\* const deleteEntry = (id) => { ... }
deleteEntry(id) ==
  /\ history' = removeEntry(history, id)
  /\ currentDoodle' = clearCurrent(currentDoodle, id)
  /\ storage' = persistEffect(removeEntry(history, id))
  /\ UNCHANGED <<app, clock, transcript, isGenerating, error, style,
                 inflight, atClose, pending, exportVars, voiceVars>>

\* onDelete={() => deleteEntry(entry.id)}
DeleteEntry(i) ==
  /\ app = "running"
  /\ i \in DOMAIN history
  /\ deleteEntry(history[i].id)

(***************************************************************************)
(* Archive export.                                                         *)
(***************************************************************************)
\* new Date().toISOString() at the reading t, and its calendar-date part
\* (what .split('T')[0] keeps).
IsoDate(t) == "2026-01-0" \o Digit(1 + (t \div ReadingsPerDay))
toISOString(t) == IsoDate(t) \o "T00:00:00.00" \o Digit(t % ReadingsPerDay) \o "Z"

CommaPositions(s) == {i \in 1..Len(s) : Ch(s, i) = ","}

\* entry.imageUrl.split(',')[1]: the text between the first comma and the
\* second one (or the end); undefined when there is no comma.
base64Data(imageUrl) ==
  LET cs == CommaPositions(imageUrl) IN
  IF cs = {} THEN None
  ELSE LET a == CHOOSE i \in cs : \A j \in cs : i <= j
           rest == {j \in cs : j > a}
           b == IF rest = {} THEN Len(imageUrl) + 1
                ELSE CHOOSE i \in rest : \A j \in rest : i <= j
       IN Some(SubSeq(imageUrl, a + 1, b - 1))

\* A JSZip object: its entries in insertion order, each with the data it was
\* given and the base64 option; the data is read when the archive is
\* generated.
ZipFolder(name) == [name |-> name \o "/", dir |-> TRUE, data |-> "", base64 |-> FALSE]
ZipFile(name, data, isBase64) == [name |-> name, dir |-> FALSE, data |-> data, base64 |-> isBase64]

\* zip.file(name, data): a new entry, or the entry of that name replaced.
zipAdd(zip, f) ==
  IF \E i \in DOMAIN zip : zip[i].name = f.name
    THEN [i \in DOMAIN zip |-> IF zip[i].name = f.name THEN f ELSE zip[i]]
    ELSE Append(zip, f)

\* `doodle-${entry.id}`
fileNameBase(entry) == "doodle-" \o entry.id

\* Variant of Metadata: the transcript goes into the manifest too.
MetadataWithTranscript(entry) ==
  [id |-> entry.id, date |-> entry.date, style |-> entry.style,
   prompt |-> entry.prompt, transcript |-> entry.transcript]

\* metadata.push({ id, date, style, prompt })
Metadata(entry) ==
  [id |-> entry.id, date |-> entry.date, style |-> entry.style, prompt |-> entry.prompt]

\* One pass of the for loop: the transcript file, the image file when
\* base64Data is truthy.
ArchiveEntry(zip, entry) ==
  LET withText == zipAdd(zip, ZipFile("transcripts/" \o fileNameBase(entry) \o ".txt",
                                      entry.transcript, FALSE))
      b == base64Data(entry.imageUrl)
  IN IF b # None /\ b[1] # ""
       THEN zipAdd(withText, ZipFile("doodles/" \o fileNameBase(entry) \o ".png", b[1], TRUE))
       ELSE withText

RECURSIVE ArchiveEntries(_, _)
ArchiveEntries(zip, h) ==
  IF h = <<>> THEN zip ELSE ArchiveEntries(ArchiveEntry(zip, Head(h)), Tail(h))

\* JSON.stringify(value, null, 2) of the manifest object.
Indent(n) == SubSeq("            ", 1, n)

PrettyMember(n, key, text) == Indent(n) \o Quote(key) \o ": " \o text

PrettyStyle(st, n) ==
  "{\n" \o PrettyMember(n + 2, "thickness", Quote(st.thickness)) \o ",\n"
        \o PrettyMember(n + 2, "color", Quote(st.color)) \o ",\n"
        \o PrettyMember(n + 2, "artStyle", Quote(st.artStyle)) \o "\n"
        \o Indent(n) \o "}"

PrettyMetadata(m, n) ==
  "{\n" \o PrettyMember(n + 2, "id", Quote(m.id)) \o ",\n"
        \o PrettyMember(n + 2, "date", Quote(m.date)) \o ",\n"
        \o PrettyMember(n + 2, "style", PrettyStyle(m.style, n + 2)) \o ",\n"
        \o PrettyMember(n + 2, "prompt", Quote(m.prompt))
        \o (IF "transcript" \in DOMAIN m
              THEN ",\n" \o PrettyMember(n + 2, "transcript", Quote(m.transcript))
              ELSE "")
        \o "\n" \o Indent(n) \o "}"

RECURSIVE PrettyElems(_, _)
PrettyElems(ms, n) ==
  IF Len(ms) = 1 THEN Indent(n) \o PrettyMetadata(ms[1], n)
  ELSE Indent(n) \o PrettyMetadata(ms[1], n) \o ",\n" \o PrettyElems(Tail(ms), n)

PrettyArray(ms, n) ==
  IF ms = <<>> THEN "[]" ELSE "[\n" \o PrettyElems(ms, n + 2) \o "\n" \o Indent(n) \o "]"

StringifyManifest(ms, exportedAt) ==
  "{\n" \o PrettyMember(2, "entries", PrettyArray(ms, 2)) \o ",\n"
        \o PrettyMember(2, "exportedAt", Quote(exportedAt)) \o "\n}"

\* The try block of handleExportArchive up to zip.generateAsync: the two
\* folders, the loop over history, index.json.
BuildArchive(h, now) ==
  zipAdd(ArchiveEntries(<<ZipFolder("doodles"), ZipFolder("transcripts")>>, h),
         ZipFile("index.json",
                 StringifyManifest([i \in DOMAIN h |-> Metadata(h[i])], toISOString(now)),
                 FALSE))

(***************************************************************************)
(* zip.generateAsync.  JSZip reads the data of its entries when the        *)
(* archive is generated: text is stored in UTF-8, data given with          *)
(* { base64: true } is decoded, and a text that does not decode rejects    *)
(* the promise.  The archive is modelled as its entries with their stored  *)
(* bytes; compression and the container's layout are left out.             *)
(***************************************************************************)
\* The code unit of a character.
CodeUnits ==
  [c \in {FromCodeUnit(u) : u \in (1..255) \ {96}} |->
     CHOOSE u \in (1..255) \ {96} : FromCodeUnit(u) = c]

\* The UTF-8 bytes of a character below U+0800.
utf8encodeChar(c) ==
  LET u == CodeUnits[c] IN
  IF u < 128 THEN <<u>> ELSE <<192 + (u \div 64), 128 + (u % 64)>>

RECURSIVE utf8encodeRange(_, _, _)
utf8encodeRange(s, lo, hi) ==
  IF lo > hi THEN <<>>
  ELSE IF lo = hi THEN utf8encodeChar(Ch(s, lo))
  ELSE utf8encodeRange(s, lo, (lo + hi) \div 2) \o utf8encodeRange(s, (lo + hi) \div 2 + 1, hi)

\* The UTF-8 bytes of a text: one byte for each character below U+0080,
\* two for each of the others.
utf8encode(s) ==
  IF \A i \in 1..Len(s) : CodeUnits[Ch(s, i)] < 128
    THEN [i \in 1..Len(s) |-> CodeUnits[Ch(s, i)]]
    ELSE utf8encodeRange(s, 1, Len(s))

\* JSZip's base64 alphabet: a character's index, from 0, is its value, and
\* the padding character has 64.
keyStr == "ABCDEFGHIJKLMNOPQRSTUVWXYZabcdefghijklmnopqrstuvwxyz0123456789+/="

\* _keyStr.indexOf(c), for a character of the alphabet.
indexOf(c) == (CHOOSE i \in 1..Len(keyStr) : Ch(keyStr, i) = c) - 1

\* input.replace(/[^A-Za-z0-9+/=]/g, "")
RECURSIVE Base64Clean(_)
Base64Clean(s) ==
  IF s = "" THEN ""
  ELSE (IF \E i \in 1..Len(keyStr) : Ch(keyStr, i) = Ch(s, 1) THEN Ch(s, 1) ELSE "")
       \o Base64Clean(SubSeq(s, 2, Len(s)))

\* a | b
RECURSIVE BitOr(_, _)
BitOr(a, b) ==
  IF a = 0 THEN b
  ELSE IF b = 0 THEN a
  ELSE 2 * BitOr(a \div 2, b \div 2) + (IF a % 2 = 1 \/ b % 2 = 1 THEN 1 ELSE 0)

\* One pass of the decoding loop: chr1, chr2 unless the third character is
\* the padding, chr3 unless the fourth is; an element of a Uint8Array keeps
\* the low eight bits.
DecodeQuad(enc1, enc2, enc3, enc4) ==
  <<BitOr(enc1 * 4, enc2 \div 16) % 256>>
  \o (IF enc3 # 64 THEN <<BitOr((enc2 % 16) * 16, enc3 \div 4) % 256>> ELSE <<>>)
  \o (IF enc4 # 64 THEN <<BitOr((enc3 % 4) * 64, enc4) % 256>> ELSE <<>>)

RECURSIVE DecodeQuads(_)
DecodeQuads(s) ==
  IF s = "" THEN <<>>
  ELSE DecodeQuad(indexOf(Ch(s, 1)), indexOf(Ch(s, 2)), indexOf(Ch(s, 3)), indexOf(Ch(s, 4)))
       \o DecodeQuads(SubSeq(s, 5, Len(s)))

\* new Uint8Array(totalLength) after the loop's writes: a write past the end
\* is dropped, an element never written is 0.
Uint8Array(totalLength, written) ==
  [i \in 1..totalLength |-> IF i <= Len(written) THEN written[i] ELSE 0]

\* The padding characters among the last two of the cleaned input.
Padding(s) ==
  (IF Len(s) >= 1 /\ Ch(s, Len(s)) = "=" THEN 1 ELSE 0)
  + (IF Len(s) >= 2 /\ Ch(s, Len(s) - 1) = "=" THEN 1 ELSE 0)

\* The decoding of the cleaned input: None when its length gives no whole
\* number of bytes ("Invalid base64 input, bad content length.").
DecodeClean(s) ==
  IF Len(s) % 4 # 0 THEN None
  ELSE Some(Uint8Array((Len(s) \div 4) * 3 - Padding(s), DecodeQuads(s)))

\* base64.decode(input): None when it throws.
Base64Decode(input) ==
  IF Len(input) >= 5 /\ SubSeq(input, 1, 5) = "data:" THEN None
  ELSE DecodeClean(Base64Clean(input))

\* The data of one of the bundle's files does not decode.
Undecodable(zip) ==
  \E i \in DOMAIN zip : zip[i].base64 /\ Base64Decode(zip[i].data) = None

\* The bytes generateAsync stores for an entry.
Stored(f) == IF f.base64 THEN Base64Decode(f.data)[1] ELSE utf8encode(f.data)

\* The archive generateAsync resolves with, for a bundle whose files decode.
generateAsync(zip) ==
  [i \in DOMAIN zip |-> [name |-> zip[i].name, dir |-> zip[i].dir, bytes |-> Stored(zip[i])]]

\* Variant of handleExportArchive: no test of history.length.
handleExportArchiveUnguarded ==
  /\ Len(exporting) < MaxInflight
  /\ isExporting' = TRUE
  /\ error' = None
  /\ exporting' = Append(exporting, [zip |-> BuildArchive(history, clock)])
  /\ calledOnEmpty' = (calledOnEmpty \/ history = <<>>)
  /\ UNCHANGED <<app, storage, clock, transcript, isGenerating, currentDoodle,
                 history, style, inflight, atClose, pending, download, voiceVars>>

\* handleExportArchive up to its await: the guard, the two state updates,
\* the bundle assembled from the history of the render that was clicked.
handleExportArchive ==
  IF Len(history) = 0
    THEN /\ calledOnEmpty' = TRUE
         /\ UNCHANGED <<app, storage, clock, transcript, isGenerating, currentDoodle,
                        history, error, style, inflight, atClose, pending, isExporting,
                        exporting, download, voiceVars>>
    ELSE /\ Len(exporting) < MaxInflight
         /\ isExporting' = TRUE
         /\ error' = None
         /\ exporting' = Append(exporting, [zip |-> BuildArchive(history, clock)])
         /\ UNCHANGED <<app, storage, clock, transcript, isGenerating, currentDoodle,
                        history, style, inflight, atClose, pending, download, calledOnEmpty,
                        voiceVars>>

\* Variant of ExportDisabled: the button is never disabled.
ExportNeverDisabled == FALSE

\* disabled={isExporting}
ExportDisabled == isExporting

\* A click on "Archive": the button is rendered for a non-empty history
\* only, and a disabled button delivers no click.
ClickExport ==
  /\ app = "running"
  /\ Len(history) > 0
  /\ ~ExportDisabled
  /\ handleExportArchive

\* handleExportArchive called while the history is empty (no button is
\* rendered then: the call reaches the handler's own guard).
ExportOnEmpty ==
  /\ app = "running"
  /\ Len(history) = 0
  /\ handleExportArchive

\* Variant of ExportFails: the file is handed over all the same.
ExportFailsDelivers(i) ==
  /\ error' = Some(ExportError)
  /\ isExporting' = FALSE
  /\ download' = Some([name |-> "DoodleDiary-Archive-" \o IsoDate(clock) \o ".zip",
                       zip |-> exporting[i].zip])
  /\ exporting' = Remove(exporting, i)
  /\ UNCHANGED <<app, storage, clock, transcript, isGenerating, currentDoodle,
                 history, style, inflight, atClose, pending, calledOnEmpty, voiceVars>>

\* zip.generateAsync rejects: catch, then finally.
ExportFails(i) ==
  /\ error' = Some(ExportError)
  /\ isExporting' = FALSE
  /\ exporting' = Remove(exporting, i)
  /\ UNCHANGED <<app, storage, clock, transcript, isGenerating, currentDoodle,
                 history, style, inflight, atClose, pending, download, calledOnEmpty, voiceVars>>

ExportReject(i) ==
  /\ app = "running"
  /\ i \in DOMAIN exporting
  /\ ExportFails(i)

\* zip.generateAsync rejects because the data of an image file does not
\* decode.
DecodeReject(i) ==
  /\ app = "running"
  /\ i \in DOMAIN exporting
  /\ Undecodable(exporting[i].zip)
  /\ ExportFails(i)

\* zip.generateAsync resolves: the blob is handed to the browser under a
\* name that carries the calendar date of that moment, then finally.  It
\* resolves when the data of every file decodes; the download is noted by
\* its name and the bundle it was generated from, and the bytes of its
\* files are generateAsync of that bundle.
ExportResolve(i) ==
  /\ app = "running"
  /\ i \in DOMAIN exporting
  /\ ~Undecodable(exporting[i].zip)
  /\ download' = Some([name |-> "DoodleDiary-Archive-" \o IsoDate(clock) \o ".zip",
                       zip |-> exporting[i].zip])
  /\ isExporting' = FALSE
  /\ exporting' = Remove(exporting, i)
  /\ UNCHANGED <<app, storage, clock, transcript, isGenerating, currentDoodle,
                 history, error, style, inflight, atClose, pending, calledOnEmpty, voiceVars>>

(***************************************************************************)
(* Voice recording.  A session is one connectVoice call:                   *)
(*   phase    "media": getUserMedia is awaited; "live": connectVoice has   *)
(*            returned its stop handle; "failed": connectVoice rejected    *)
(*   conn     the live.connect promise and its connection: "none" (not     *)
(*            called), "pending", "open" (resolved), "rejected", "closing" *)
(*            (session.close() called, onclose not yet delivered),         *)
(*            "closed" (onclose delivered)                                 *)
(*   mic      the tracks of the microphone stream are live                 *)
(*   text     currentTranscription                                         *)
(*   received the fragments delivered so far, in arrival order             *)
(*   errored  onerror has been delivered                                   *)
(***************************************************************************)
NewSession ==
  [phase |-> "media", conn |-> "none", mic |-> FALSE, text |-> "",
   received |-> <<>>, errored |-> FALSE]

\* handleStartRecording up to the await inside connectVoice.
handleStartRecording ==
  /\ error' = None
  /\ isRecording' = TRUE
  /\ sessions' = Append(sessions, NewSession)
  /\ UNCHANGED <<app, storage, clock, transcript, isGenerating, currentDoodle,
                 history, style, inflight, atClose, pending, exportVars,
                 voiceSessionRef, stopping>>

\* A click on "Voice Input", the button shown while isRecording is false.
ClickStartRecording ==
  /\ app = "running"
  /\ ~isRecording
  /\ handleStartRecording

\* connectVoice rejects: the catch block of handleStartRecording.
StartFails(n, micHeld) ==
  /\ sessions' = [sessions EXCEPT ![n].phase = "failed", ![n].mic = micHeld]
  /\ error' = Some(VoiceStartError)
  /\ isRecording' = FALSE
  /\ UNCHANGED <<app, storage, clock, transcript, isGenerating, currentDoodle,
                 history, style, inflight, atClose, pending, exportVars,
                 voiceSessionRef, stopping>>

\* getUserMedia rejects (permission denied, no device).
MediaReject(n) ==
  /\ app = "running"
  /\ n \in DOMAIN sessions
  /\ sessions[n].phase = "media"
  /\ StartFails(n, FALSE)

\* getUserMedia resolves and the AudioContext constructor throws: the
\* stream is held, connectVoice rejects.
ContextThrows(n) ==
  /\ app = "running"
  /\ n \in DOMAIN sessions
  /\ sessions[n].phase = "media"
  /\ StartFails(n, TRUE)

\* getUserMedia resolves: live.connect is called (its promise is not
\* awaited), connectVoice returns the stop handle and handleStartRecording
\* stores it.
MediaResolve(n) ==
  /\ app = "running"
  /\ n \in DOMAIN sessions
  /\ sessions[n].phase = "media"
  /\ sessions' = [sessions EXCEPT ![n].phase = "live", ![n].conn = "pending",
                                  ![n].mic = TRUE]
  /\ voiceSessionRef' = Some(n)
  /\ UNCHANGED <<app, storage, clock, transcript, isGenerating, currentDoodle,
                 history, error, style, inflight, atClose, pending, exportVars,
                 isRecording, stopping>>

\* Variant of Accumulate: the new fragment goes in front.
AccumulateInFront(text, fragment) == fragment \o text

\* currentTranscription += text
Accumulate(text, fragment) == text \o fragment

\* onmessage with an inputTranscription: the accumulated text goes to
\* onTranscription, which sets the input.
Transcription(n, fragment) ==
  /\ app = "running"
  /\ n \in DOMAIN sessions
  /\ sessions[n].conn = "open"
  /\ Len(sessions[n].received) < MaxFragments
  /\ sessions' = [sessions EXCEPT ![n].text = Accumulate(@, fragment),
                                  ![n].received = Append(@, fragment)]
  /\ transcript' = Accumulate(sessions[n].text, fragment)
  /\ UNCHANGED <<app, storage, clock, isGenerating, currentDoodle, history,
                 error, style, inflight, atClose, pending, exportVars,
                 isRecording, voiceSessionRef, stopping>>

\* onerror of the connection: callbacks.onError.
SessionError(n) ==
  /\ app = "running"
  /\ n \in DOMAIN sessions
  /\ sessions[n].conn \in {"pending", "open"}
  /\ ~sessions[n].errored
  /\ sessions' = [sessions EXCEPT ![n].errored = TRUE]
  /\ error' = Some(VoiceConnectionError)
  /\ isRecording' = FALSE
  /\ UNCHANGED <<app, storage, clock, transcript, isGenerating, currentDoodle,
                 history, style, inflight, atClose, pending, exportVars,
                 voiceSessionRef, stopping>>

\* onclose of the connection, after session.close() or a close by the
\* remote end: callbacks.onClose.
SessionClose(n) ==
  /\ app = "running"
  /\ n \in DOMAIN sessions
  /\ sessions[n].conn \in {"open", "closing"}
  /\ sessions' = [sessions EXCEPT ![n].conn = "closed"]
  /\ isRecording' = FALSE
  /\ UNCHANGED <<app, storage, clock, transcript, isGenerating, currentDoodle,
                 history, error, style, inflight, atClose, pending, exportVars,
                 voiceSessionRef, stopping>>

\* The body of stop() after its await: session.close() and track.stop()
\* on every track.
Stopped(ss, n) ==
  [ss EXCEPT ![n].conn = IF @ \in {"pending", "open"} THEN "closing" ELSE @,
             ![n].mic = FALSE]

\* stop() of session n returns: handleStopRecording sets the input to the
\* returned text, the flag to false and the handle to null.
StopReturns(n) ==
  /\ sessions' = Stopped(sessions, n)
  /\ transcript' = sessions[n].text
  /\ isRecording' = FALSE
  /\ voiceSessionRef' = None
  /\ stopping' = SelectSeq(stopping, LAMBDA m : m # n)
  /\ UNCHANGED <<app, storage, clock, isGenerating, currentDoodle, history,
                 error, style, inflight, atClose, pending, exportVars>>

\* handleStopRecording: nothing without a stored handle; with one, stop()
\* waits for the connection promise: it goes on at once when the promise
\* has resolved, throws when it has rejected (nothing catches it), and is
\* suspended while it is pending.
handleStopRecording ==
  IF voiceSessionRef = None
    THEN UNCHANGED vars
    ELSE LET n == voiceSessionRef[1] IN
      CASE sessions[n].conn = "pending" ->
             /\ Len(stopping) < MaxInflight
             /\ stopping' = Append(stopping, n)
             /\ UNCHANGED <<app, storage, clock, transcript, isGenerating,
                            currentDoodle, history, error, style, inflight,
                            atClose, pending, exportVars, isRecording, voiceSessionRef,
                            sessions>>
        [] sessions[n].conn = "rejected" -> UNCHANGED vars
        [] OTHER -> StopReturns(n)

\* A click on "Stop Voice", the button shown while isRecording is true.
ClickStopRecording ==
  /\ app = "running"
  /\ isRecording
  /\ handleStopRecording

\* The live.connect promise resolves: the stop() calls that wait for it go
\* on.
ConnectResolve(n) ==
  /\ app = "running"
  /\ n \in DOMAIN sessions
  /\ sessions[n].conn = "pending"
  /\ IF \E k \in DOMAIN stopping : stopping[k] = n
       THEN StopReturns(n)
       ELSE /\ sessions' = [sessions EXCEPT ![n].conn = "open"]
            /\ UNCHANGED <<app, storage, clock, transcript, isGenerating,
                           currentDoodle, history, error, style, inflight,
                           atClose, pending, exportVars, isRecording, voiceSessionRef,
                           stopping>>

\* The live.connect promise rejects: nothing awaits it but the stop() calls,
\* which throw out of handleStopRecording.
ConnectReject(n) ==
  /\ app = "running"
  /\ n \in DOMAIN sessions
  /\ sessions[n].conn = "pending"
  /\ sessions' = [sessions EXCEPT ![n].conn = "rejected"]
  /\ stopping' = SelectSeq(stopping, LAMBDA m : m # n)
  /\ UNCHANGED <<app, storage, clock, transcript, isGenerating, currentDoodle,
                 history, error, style, inflight, atClose, pending, exportVars,
                 isRecording, voiceSessionRef>>

\* The steps of voice recording, for the fragments the sessions deliver and
\* the number of sessions the run may open.
VoiceStep(fragments, limit) ==
  \/ Len(sessions) < limit /\ ClickStartRecording
  \/ \E n \in 1..limit : MediaResolve(n)
  \/ \E n \in 1..limit : MediaReject(n)
  \/ \E n \in 1..limit : ContextThrows(n)
  \/ \E n \in 1..limit : ConnectResolve(n)
  \/ \E n \in 1..limit : ConnectReject(n)
  \/ \E n \in 1..limit, fragment \in fragments : Transcription(n, fragment)
  \/ \E n \in 1..limit : SessionError(n)
  \/ \E n \in 1..limit : SessionClose(n)
  \/ ClickStopRecording

\* The steps of the application, for the thicknesses the user picks among,
\* the texts the visual-prompt call answers with, the parts the image call
\* answers with, and the number of entries the run may create.
Step(thicknesses, promptTexts, imageParts, limit) ==
  \/ Start
  \/ LoadRender
  \/ Close
  \/ \E text \in Transcripts : EditTranscript(text)
  \/ \E t \in thicknesses : SetThickness(t)
  \/ \E a \in ArtStyleChoices : SetArtStyle(a)
  \/ \E c \in ColorChoices : SetColor(c)
  \/ ClickGenerate
  \/ \E i \in 1..MaxInflight, text \in promptTexts : PromptResolve(i, text)
  \/ \E i \in 1..MaxInflight : PromptReject(i)
  \/ \E i \in 1..MaxInflight, parts \in imageParts : clock < limit /\ ImageResolve(i, parts)
  \/ \E i \in 1..MaxInflight : ImageReject(i)
  \/ \E i \in 1..limit : SelectEntry(i)
  \/ \E i \in 1..limit : DeleteEntry(i)

\* Short histories, every input varied.
Next == Step(ThicknessChoices, PromptTexts, ImageParts, MaxEntries)

Spec == Init /\ [][Next]_vars

\* Longer histories, with the thickness left at its initial value.
LongNext == Step({InitialStyle.thickness}, PromptTexts, ImageParts, MaxTime)

LongSpec == Init /\ [][LongNext]_vars

\* Answers of the image call whose payload, when there is one, decodes: no
\* image, an image with an empty payload, an image.
DecodableImageParts == { <<TextPart>>, <<InlinePart("")>>, <<InlinePart("QUJD")>> }

\* The image call's answers in the runs that export every kind of payload:
\* the ones above and two images whose payload is no base64 text, one with
\* a comma in it, whose first part has no length of whole bytes, and one
\* with a character outside the alphabet.
ExportImageParts ==
  DecodableImageParts \cup { <<InlinePart("QU,J")>>, <<InlinePart("QUJD!")>> }

\* Export interleaved with generation, selection and deletion.
ExportNext ==
  \/ Step({InitialStyle.thickness}, {Some(PicnicPrompt)}, DecodableImageParts, MaxEntries)
  \/ ClickExport
  \/ ExportOnEmpty
  \/ \E i \in 1..MaxInflight : ExportResolve(i)
  \/ \E i \in 1..MaxInflight : ExportReject(i)
  \/ Tick(MaxEntries)

ExportSpec == Init /\ [][ExportNext]_vars

\* Histories built, pruned and archived: what a bundle holds for the
\* histories the application can have.
ArchiveNext ==
  \/ Start
  \/ LoadRender
  \/ EditTranscript(" say \"hi\" \\o/ ")
  \/ ClickGenerate
  \/ \E i \in 1..MaxInflight : PromptResolve(i, Some(PicnicPrompt))
  \/ \E i \in 1..MaxInflight, parts \in DecodableImageParts :
        clock < MaxEntries /\ ImageResolve(i, parts)
  \/ \E i \in 1..MaxEntries : DeleteEntry(i)
  \/ ClickExport
  \/ \E i \in 1..MaxInflight : ExportResolve(i)
  \/ Tick(MaxTime)

ArchiveSpec == Init /\ [][ArchiveNext]_vars

\* Histories whose images have payloads of every kind, built, pruned and
\* archived: an archive is generated when the data of its files decodes,
\* and the export fails when it does not.
PayloadNext ==
  \/ Start
  \/ LoadRender
  \/ EditTranscript(" say \"hi\" \\o/ ")
  \/ ClickGenerate
  \/ \E i \in 1..MaxInflight : PromptResolve(i, Some(PicnicPrompt))
  \/ \E i \in 1..MaxInflight, parts \in ExportImageParts :
        clock < MaxEntries /\ ImageResolve(i, parts)
  \/ \E i \in 1..MaxEntries : DeleteEntry(i)
  \/ ClickExport
  \/ \E i \in 1..MaxInflight : ExportResolve(i)
  \/ \E i \in 1..MaxInflight : DecodeReject(i)
  \/ Tick(MaxTime)

PayloadSpec == Init /\ [][PayloadNext]_vars

\* Starts on stored texts of every shape: ones that do not parse, values
\* whose render throws, values that are not entry arrays and render, entry
\* arrays with their members in another order, numerals that are no doubles
\* and string literals with escapes and control characters.
StoredTexts ==
  InitialBlobs \cup
  { Some("\"\""), Some("\"a\""), Some("0"), Some("01"), Some("{\"length\":0}"),
    Some("{\"length\":0,\"1\":null,\"length\":0,\"0\":[]}"),
    Some("[[]]"), Some("[[1]]"), Some("[{\"id\":\"1\",\"style\":{}}]"),
    Some("[{\"id\":\"1\",\"date\":{},\"style\":{}}]"),
    Some("[{\"style\":{\"artStyle\":[\"a\",[1]]},\"id\":\"1\"}]"),
    Some("[{\"style\":{\"artStyle\":[{}]}}]"),
    Some("[{\"style\":null}]"),
    Some("\"a\rb\""), Some("\"ab\""), Some("\"a b\""), Some("\"\\u0041\""),
    Some("[{\"id\":\"\\b\\u001f\\u00ff\",\"style\":{}}]"), Some("[{\"id\":\"\\r\\u00e9\",\"style\":{}}]"),
    Some("-1"), Some("-0"), Some("1e400"), Some("9007199254740993"),
    Some("{\"length\":0,\"a\":9007199254740993}"), Some("{\"length\":-0.0e5}"),
    Some("{\"length\":\"0\"}"),
    Some("[{\"id\":123456789012345678901234567890,\"date\":-1E400,\"style\":2.50}]") }

LoadInit ==
  /\ storage \in StoredTexts
  /\ Unmounted

LoadNext ==
  \/ Start
  \/ LoadRender
  \/ Close

LoadSpec == LoadInit /\ [][LoadNext]_vars

\* Voice recording on its own.
VoiceNext ==
  \/ VoiceStep(Fragments, MaxSessions)
  \/ Start
  \/ LoadRender
  \/ Close

VoiceSpec == Init /\ [][VoiceNext]_vars

\* One visit of the page: voice recording next to generation and an export
\* whose archive is still being generated.
FaultNext ==
  \/ VoiceStep({"a picnic"}, MaxRecordings)
  \/ Start
  \/ LoadRender
  \/ EditTranscript("a picnic")
  \/ ClickGenerate
  \/ \E i \in 1..MaxInflight : PromptResolve(i, Some(PicnicPrompt))
  \/ \E i \in 1..MaxInflight : clock < MaxRecordings /\ ImageResolve(i, <<InlinePart("QUJD")>>)
  \/ \E i \in 1..MaxInflight : ImageReject(i)
  \/ ClickExport

FaultSpec == Init /\ [][FaultNext]_vars

\* The controls of one visit of the page together: style, input, generation,
\* deletion, recording and export.
LifeNext ==
  \/ Start
  \/ EditTranscript("a picnic")
  \/ \E t \in ThicknessChoices : SetThickness(t)
  \/ ClickGenerate
  \/ \E i \in 1..MaxInflight : PromptResolve(i, Some(PicnicPrompt))
  \/ \E i \in 1..MaxInflight : clock < MaxEntries /\ ImageResolve(i, <<InlinePart("QUJD")>>)
  \/ \E i \in 1..MaxEntries : DeleteEntry(i)
  \/ Len(sessions) < MaxRecordings /\ ClickStartRecording
  \/ \E n \in 1..MaxRecordings : MediaResolve(n)
  \/ \E n \in 1..MaxRecordings : ConnectResolve(n)
  \/ ClickStopRecording
  \/ ClickExport
  \/ \E i \in 1..MaxInflight : ExportReject(i)

\* The first visit of the page: nothing is stored.
LifeInit == Init /\ storage = None

LifeSpec == LifeInit /\ [][LifeNext]_vars

\* One visit of the page: generation while the input is edited, a voice
\* session delivers transcriptions, and the style is changed.
CaptureNext ==
  \/ Start
  \/ EditTranscript("a picnic")
  \/ \E t \in ThicknessChoices : SetThickness(t)
  \/ ClickGenerate
  \/ \E i \in 1..MaxInflight : PromptResolve(i, Some(PicnicPrompt))
  \/ \E i \in 1..MaxInflight : clock < MaxEntries /\ ImageResolve(i, <<InlinePart("QUJD")>>)
  \/ Len(sessions) < MaxRecordings /\ ClickStartRecording
  \/ \E n \in 1..MaxRecordings : MediaResolve(n)
  \/ \E n \in 1..MaxRecordings : ConnectResolve(n)
  \/ \E n \in 1..MaxRecordings : Transcription(n, "Had ")
  \/ ClickStopRecording

CaptureSpec == LifeInit /\ [][CaptureNext]_vars

\* The three activities under the scheduling the platform guarantees: every
\* awaited call settles, and a recording is stopped by the user or ended by
\* its session.
LiveNext ==
  \/ VoiceStep({"a picnic"}, MaxRecordings)
  \/ Start
  \/ LoadRender
  \/ Close
  \/ ClickGenerate
  \/ \E i \in 1..MaxInflight : PromptResolve(i, Some(PicnicPrompt))
  \/ \E i \in 1..MaxInflight : PromptReject(i)
  \/ \E i \in 1..MaxInflight : clock < MaxRecordings /\ ImageResolve(i, <<InlinePart("QUJD")>>)
  \/ \E i \in 1..MaxInflight : ImageReject(i)
  \/ ClickExport
  \/ \E i \in 1..MaxInflight : ExportResolve(i)
  \/ \E i \in 1..MaxInflight : ExportReject(i)

\* getUserMedia settles; ai.live.connect settles; each remote call and the
\* archive generation settle; a recording in progress is stopped or ended.
Settles ==
  /\ \A n \in 1..(MaxRecordings + 1) :
        /\ WF_vars(MediaResolve(n) \/ MediaReject(n) \/ ContextThrows(n))
        /\ WF_vars(ConnectResolve(n) \/ ConnectReject(n))
  /\ \A i \in 1..MaxInflight :
        /\ WF_vars(PromptResolve(i, Some(PicnicPrompt)) \/ PromptReject(i))
        /\ WF_vars(ImageReject(i) \/ (clock < MaxRecordings /\ ImageResolve(i, <<InlinePart("QUJD")>>)))
        /\ WF_vars(ExportResolve(i) \/ ExportReject(i))
  /\ WF_vars(ClickStopRecording
               \/ \E n \in 1..(MaxRecordings + 1) : SessionError(n) \/ SessionClose(n))

LiveSpec == Init /\ [][LiveNext]_vars /\ Settles

(***************************************************************************)
(* Properties.                                                             *)
(***************************************************************************)
Ids(h) == {h[i].id : i \in DOMAIN h}

\* The number a decimal string denotes.
RECURSIVE StringToNum(_)
StringToNum(s) ==
  IF Len(s) = 0 THEN 0
  ELSE 10 * StringToNum(SubSeq(s, 1, Len(s) - 1))
       + (CHOOSE d \in 0..9 : Digit(d) = Ch(s, Len(s)))

\* Every id the run can create, and one it cannot.
CandidateIds == {NumToString(n) : n \in 1..(MaxTime + 1)}

\* A step of the running application that creates an entry (a suspended
\* generate handler ends with a Date.now() reading), and one that takes
\* entries out of history.
AddStep == clock' # clock /\ Len(inflight') < Len(inflight)
DeleteStep == app = "running" /\ app' = "running" /\ Len(history') < Len(history)

\* C1: an add puts the new entry at index 0 and keeps the entries that were
\* there, in their order, behind it; history is newest-first (strictly
\* decreasing creation time) in every reachable state.
C1_NewestFirst ==
  /\ [](\A i, j \in DOMAIN history :
          i < j => StringToNum(history[i].id) > StringToNum(history[j].id))
  /\ [][AddStep =>
          /\ Len(history') = Len(history) + 1
          /\ history'[1].id \notin Ids(history)
          /\ \A i \in DOMAIN history : history'[i + 1] = history[i]]_vars

\* Three successive adds e1, e2, e3 gave [e3, e2, e1].
C1_Witness ==
  /\ Len(history) = 3
  /\ <<history[1].id, history[2].id, history[3].id>> = <<"3", "2", "1">>

\* C2: removing an id that history of size N holds gives size N-1, without
\* the id, the rest in the same order; removing an absent id changes
\* nothing; removing twice is removing once.  Every delete step of the
\* application removes exactly the entry of the row.
C2_Delete ==
  /\ [](\A id \in CandidateIds :
          LET r == removeEntry(history, id) IN
          /\ id \in Ids(history) =>
               /\ Len(r) = Len(history) - 1
               /\ id \notin Ids(r)
               /\ \E i \in DOMAIN history : history[i].id = id /\ r = Remove(history, i)
          /\ id \notin Ids(history) => r = history
          /\ removeEntry(r, id) = r)
  /\ [][DeleteStep =>
          \E i \in DOMAIN history :
            /\ history' = Remove(history, i)
            /\ history[i].id \notin Ids(history')]_vars

\* The middle one of three entries was deleted: the other two keep their order.
C2_Witness ==
  /\ Len(history) = 2
  /\ <<history[1].id, history[2].id>> = <<"3", "1">>

\* C3: the displayed entry is none or an entry whose id is in history; a
\* delete of the entry it references sets it to none, a delete of another
\* entry leaves it as it is.
C3_CurrentInHistory ==
  /\ [](currentDoodle = None \/ currentDoodle[1].id \in Ids(history))
  /\ [][DeleteStep /\ currentDoodle # None =>
          IF currentDoodle[1].id \in Ids(history')
            THEN currentDoodle' = currentDoodle
            ELSE currentDoodle' = None]_vars

\* An older entry is displayed, a newer one is in history, another was deleted.
C3_Witness ==
  /\ Len(history) = 2
  /\ clock = 3
  /\ currentDoodle # None
  /\ currentDoodle[1].id = history[2].id


\* A step in which a suspended generate handler ends without an entry.
FailStep ==
  /\ app = "running" /\ app' = "running"
  /\ Len(inflight') < Len(inflight)
  /\ clock' = clock

\* C4: at most one request chain is in flight, the generating flag is set
\* exactly while one is, and a chain starts only from a state in which the
\* transcript is not blank and no generation is active; from any other state
\* a generate invocation starts no call and changes nothing.
C4_Gated ==
  /\ [](Len(inflight) <= 1 /\ (isGenerating <=> inflight # <<>>))
  /\ [][Len(inflight') > Len(inflight) =>
          /\ trim(transcript) # ""
          /\ ~isGenerating
          /\ inflight = <<>>]_vars

\* A generation is active while the input holds text: only the flag gates.
C4_Witness ==
  /\ isGenerating
  /\ Len(inflight) = 1
  /\ trim(transcript) # ""

\* C5: when either remote call fails no entry is created: history, the
\* stored history, the displayed entry and the input are as before, the
\* generation error message is set and the generating flag is idle.
C5_FailureCreatesNothing ==
  [][FailStep =>
       /\ history' = history
       /\ storage' = storage
       /\ currentDoodle' = currentDoodle
       /\ transcript' = transcript
       /\ error' = Some(GenerateError)
       /\ isGenerating' = FALSE]_vars

\* A generation failed with entries in history and text in the input.
C5_Witness ==
  /\ error = Some(GenerateError)
  /\ ~isGenerating
  /\ inflight = <<>>
  /\ history # <<>>
  /\ trim(transcript) # ""

\* A data URI that carries a base64 payload.
IsImageDataUri(u) ==
  /\ Len(u) > Len(DataUriPrefix)
  /\ SubSeq(u, 1, Len(DataUriPrefix)) = DataUriPrefix

\* C6: every entry of history has an imageUrl that is a data URI with a
\* base64 image payload.
C6_EveryEntryHasImage ==
  \A i \in DOMAIN history : IsImageDataUri(history[i].imageUrl)

\* C7: a successful generation leaves the input empty, the new entry
\* displayed and at history[0], history one longer, the generating flag idle.
C7_Success ==
  [][AddStep =>
       /\ transcript' = ""
       /\ Len(history') = Len(history) + 1
       /\ history'[1].id = NumToString(clock')
       /\ currentDoodle' = Some(history'[1])
       /\ isGenerating' = FALSE]_vars

\* A generation has just succeeded on top of an older entry.
C7_Witness ==
  /\ Len(history) = 2
  /\ currentDoodle = Some(history[1])
  /\ transcript = ""
  /\ ~isGenerating
  /\ clock = 2

\* C8: once the application is mounted, the stored blob is the
\* serialization of the history in memory.
C8_StorageFollowsHistory ==
  app \in {"loading", "running"} => storage = Some(JSONstringify(history))

\* After two adds and a delete the blob holds the remaining entry.
C8_Witness ==
  /\ app = "running"
  /\ Len(history) = 1
  /\ clock = 2
  /\ storage = Some(JSONstringify(history))

\* The text is the serialization of the entry sequence h.
Deserializes(text, h) ==
  LET r == JSONparse(text) IN r.ok /\ IsHistoryValue(r.val) /\ ToHistory(r.val) = h

\* C9: a restart (a close of the application, then a start up to the point
\* where the page runs) ends with the history in memory and the stored blob
\* both equal to the history in memory at that close.
C9_RestartRoundTrip ==
  [][(/\ app \in {"stopped", "loading"}
      /\ atClose # None
      /\ app' \notin {"stopped", "loading"}) =>
       /\ app' = "running"
       /\ history' = atClose[1]
       /\ storage' # None
       /\ Deserializes(storage'[1], atClose[1])]_vars

\* The two steps of the restart: the mount hands the stored history to
\* setHistory, and the render that follows shows and stores it.
C9_UninterruptedRestart ==
  /\ [][(/\ app = "stopped"
          /\ atClose # None
          /\ storage # None
          /\ Deserializes(storage[1], atClose[1])) =>
           /\ app' = "loading"
           /\ IsHistoryValue(pending'[1])
           /\ ToHistory(pending'[1]) = atClose[1]
           /\ atClose' = atClose]_vars
  /\ [][(/\ app = "loading"
          /\ atClose # None
          /\ IsHistoryValue(pending[1])
          /\ ToHistory(pending[1]) = atClose[1]
          /\ app' # "stopped") =>
           /\ app' = "running"
           /\ history' = atClose[1]
           /\ storage' # None
           /\ Deserializes(storage'[1], atClose[1])]_vars

\* Two entries are in memory right after a restart: nothing is displayed,
\* nothing was deleted.
C9_Witness ==
  /\ app = "running"
  /\ Len(history) = 2
  /\ clock = 2
  /\ currentDoodle = None

\* The blob is missing or is not the serialization of an entry sequence.
MissingOrCorrupt(st) ==
  \/ st = None
  \/ LET r == JSONparse(st[1]) IN ~(r.ok /\ IsHistoryValue(r.val))

\* C10: a start with a missing or corrupt blob ends with the application
\* running on an empty history and no error shown.
C10_LoadRecovers ==
  [][(/\ \/ app = "stopped" /\ MissingOrCorrupt(storage)
         \/ app = "loading" /\ ~IsHistoryValue(pending[1])
      /\ app' \notin {"stopped", "loading"}) =>
       /\ app' = "running"
       /\ history' = <<>>
       /\ error' = None]_vars


(***************************************************************************)
(* Properties of the archive export.                                       *)
(***************************************************************************)
\* Steps of the running application in which a handleExportArchive call
\* reaches its await, ends, ends in its catch block, ends with a download.
ExportStartStep == app = "running" /\ app' = "running" /\ Len(exporting') > Len(exporting)
ExportEndStep == app = "running" /\ app' = "running" /\ Len(exporting') < Len(exporting)
ExportFailStep == ExportEndStep /\ error' = Some(ExportError)
ExportDoneStep == ExportEndStep /\ error' # Some(ExportError)
\* The step in which the handler is first called with an empty history.
ExportEmptyStep == calledOnEmpty' /\ ~calledOnEmpty

ZipNames(zip) == {zip[i].name : i \in DOMAIN zip}
ZipEntry(zip, name) == zip[CHOOSE i \in DOMAIN zip : zip[i].name = name]
StrValue(text) == [t |-> "str", s |-> text]

\* index.json of the bundle, parsed.
ManifestOf(zip) == JSONparse(ZipEntry(zip, "index.json").data)

\* The parsed manifest lists exactly the entries of h, in the order of h,
\* each with the four members id, date, style, prompt and nothing else,
\* next to one exportedAt string.
ManifestMatches(m, h) ==
  /\ m.ok
  /\ m.val.t = "obj"
  /\ m.val.k = <<"entries", "exportedAt">>
  /\ m.val.v[2].t = "str"
  /\ m.val.v[1].t = "arr"
  /\ LET a == m.val.v[1].a IN
     /\ Len(a) = Len(h)
     /\ \A i \in DOMAIN h :
          /\ a[i].t = "obj"
          /\ a[i].k = <<"id", "date", "style", "prompt">>
          /\ a[i].v[1] = StrValue(h[i].id)
          /\ a[i].v[2] = StrValue(h[i].date)
          /\ IsStyleValue(a[i].v[3])
          /\ ToStyle(a[i].v[3]) = h[i].style
          /\ a[i].v[4] = StrValue(h[i].prompt)

\* C11: the bundle an export assembles from a non-empty history has one
\* index.json whose entries are history's entries in history's order, each
\* with id, date, style and prompt only, and one export timestamp; the
\* download of a successful export is that bundle.
C11_Manifest ==
  /\ [][ExportStartStep =>
          LET zip == exporting'[Len(exporting')].zip
              m == ManifestOf(zip) IN
          /\ history # <<>>
          /\ Cardinality({i \in DOMAIN zip : zip[i].name = "index.json"}) = 1
          /\ ManifestMatches(m, history)
          /\ m.val.v[2] = StrValue(toISOString(clock))]_vars
  /\ [][ExportDoneStep =>
          \E i \in DOMAIN exporting :
            /\ exporting' = Remove(exporting, i)
            /\ download' # None
            /\ download'[1].zip = exporting[i].zip]_vars

\* A bundle with a manifest of two entries was downloaded, exported at a
\* later reading of the clock than the one its newest entry was created at.
C11_Witness ==
  /\ download # None
  /\ Len(ManifestOf(download[1].zip).val.v[1].a) = 2
  /\ ~isExporting
  /\ Len(history) = 2
  /\ \E t \in 1..MaxTime :
       /\ Head(history).id = NumToString(t)
       /\ ManifestOf(download[1].zip).val.v[2] # StrValue(toISOString(t))

\* The payload of a data URI: the text after the prefix, when the prefix is
\* there.
Payload(imageUrl) ==
  IF Len(imageUrl) >= Len(DataUriPrefix)
     /\ SubSeq(imageUrl, 1, Len(DataUriPrefix)) = DataUriPrefix
    THEN Some(SubSeq(imageUrl, Len(DataUriPrefix) + 1, Len(imageUrl)))
    ELSE None

TranscriptFile(e) == "transcripts/doodle-" \o e.id \o ".txt"
ImageFile(e) == "doodles/doodle-" \o e.id \o ".png"

\* A base64 text: characters of the alphabet in groups of four, padding at
\* the end of the last group only.
WellFormed(p) ==
  /\ Len(p) % 4 = 0
  /\ \A i \in 1..Len(p) : \E k \in 1..Len(keyStr) : Ch(p, i) = Ch(keyStr, k)
  /\ \A i \in 1..Len(p) :
       Ch(p, i) = "=" => /\ i >= Len(p) - 1
                         /\ Ch(p, Len(p)) = "="

\* The entry has an image to export: its payload is present, not empty and
\* well-formed.
HasImage(e) ==
  /\ Payload(e.imageUrl) # None
  /\ Payload(e.imageUrl)[1] # ""
  /\ WellFormed(Payload(e.imageUrl)[1])

\* The bundle holds, for every entry of h, its transcript file, and its
\* image file, given the payload as base64 data, exactly when the entry has
\* an image to export; it holds the two folders, index.json and nothing
\* else.
BundleMatches(zip, h) ==
  /\ \A i \in DOMAIN h :
       /\ Cardinality({j \in DOMAIN zip : zip[j].name = TranscriptFile(h[i])}) = 1
       /\ ZipEntry(zip, TranscriptFile(h[i])) =
            ZipFile(TranscriptFile(h[i]), h[i].transcript, FALSE)
       /\ IF HasImage(h[i])
            THEN /\ Cardinality({j \in DOMAIN zip : zip[j].name = ImageFile(h[i])}) = 1
                 /\ ZipEntry(zip, ImageFile(h[i])) =
                      ZipFile(ImageFile(h[i]), Payload(h[i].imageUrl)[1], TRUE)
            ELSE ImageFile(h[i]) \notin ZipNames(zip)
  /\ ZipNames(zip) =
       {"doodles/", "transcripts/", "index.json"}
       \cup {TranscriptFile(h[i]) : i \in DOMAIN h}
       \cup {ImageFile(h[i]) : i \in {j \in DOMAIN h : ImageFile(h[j]) \in ZipNames(zip)}}

\* C12: the bundle an export assembles holds every entry's transcript file
\* with the raw transcript, and the entry's image file with the base64
\* payload exactly when the payload is present, not empty and well-formed;
\* an entry with a malformed or missing payload has no image file and keeps
\* its transcript file and its manifest entry; no export is aborted, each
\* ends with the download of its bundle.
C12_Files ==
  /\ [][ExportStartStep =>
          LET zip == exporting'[Len(exporting')].zip IN
          /\ BundleMatches(zip, history)
          /\ ManifestMatches(ManifestOf(zip), history)]_vars
  /\ [][ExportEndStep => ExportDoneStep]_vars
  /\ [][ExportDoneStep =>
          \E i \in DOMAIN exporting :
            download' # None /\ download'[1].zip = exporting[i].zip]_vars

\* What the bundle holds instead: the image file is there exactly when
\* imageUrl has a non-empty text after its first comma, and holds that text
\* up to the next comma; an export whose bundle has an image file that does
\* not decode ends in the catch block; the image files of a download hold
\* the decoded bytes (here the three of "QUJD", with or without a character
\* that is dropped), its text files the bytes of their text.
C12_AnyTextAfterComma ==
  /\ [][ExportStartStep =>
          LET zip == exporting'[Len(exporting')].zip IN
          \A i \in DOMAIN history :
            LET b == base64Data(history[i].imageUrl) IN
            IF b # None /\ b[1] # ""
              THEN ZipEntry(zip, ImageFile(history[i])) = ZipFile(ImageFile(history[i]), b[1], TRUE)
              ELSE ImageFile(history[i]) \notin ZipNames(zip)]_vars
  /\ [][ExportEndStep =>
          \E i \in DOMAIN exporting :
            /\ exporting' = Remove(exporting, i)
            /\ ExportFailStep <=> Undecodable(exporting[i].zip)]_vars
  /\ [][ExportDoneStep =>
          LET zip == download'[1].zip
              blob == generateAsync(zip) IN
          \A k \in DOMAIN zip :
            /\ blob[k].name = zip[k].name
            /\ zip[k].base64 => blob[k].bytes = <<65, 66, 67>>
            /\ ~zip[k].base64 => Len(blob[k].bytes) = Len(zip[k].data)]_vars

\* C13: no step of an export (its start, its download, its failure, the
\* call on an empty history) changes history, the stored history, the
\* displayed entry or the input; a failed export hands over no file, sets
\* the export error message and leaves the exporting flag idle.
C13_ExportAtomic ==
  /\ [][(ExportStartStep \/ ExportEndStep \/ ExportEmptyStep) =>
          /\ history' = history
          /\ storage' = storage
          /\ currentDoodle' = currentDoodle
          /\ transcript' = transcript]_vars
  /\ [][ExportFailStep =>
          /\ download' = download
          /\ error' = Some(ExportError)
          /\ isExporting' = FALSE]_vars

\* An export failed: nothing was downloaded, the entries, the displayed
\* entry and the input are there.
C13_Witness ==
  /\ error = Some(ExportError)
  /\ ~isExporting
  /\ download = None
  /\ Len(history) = 2
  /\ currentDoodle # None
  /\ trim(transcript) # ""

\* C14: a call of the export handler on an empty history assembles no
\* bundle, hands over no file, does not set the exporting flag (an idle
\* flag is idle afterwards) and leaves the error as it is.
C14_EmptyNoop ==
  [][ExportEmptyStep =>
       /\ isExporting' = isExporting
       /\ exporting' = exporting
       /\ download' = download
       /\ error' = error]_vars

\* The handler was called on an empty history while an error was shown.
C14_Witness ==
  /\ calledOnEmpty
  /\ history = <<>>
  /\ error = Some(GenerateError)
  /\ ~isExporting
  /\ exporting = <<>>

\* C15: at most one bundle assembly is in flight, the exporting flag is set
\* exactly while one is, and an assembly starts only while none is active.
C15_OneExport ==
  /\ [](Len(exporting) <= 1 /\ (isExporting <=> exporting # <<>>))
  /\ [][ExportStartStep => ~isExporting /\ exporting = <<>>]_vars

\* An export is in flight while its entries were deleted and a generation
\* was started.
C15_Witness ==
  /\ isExporting
  /\ Len(exporting) = 1
  /\ history = <<>>
  /\ isGenerating


(***************************************************************************)
(* Properties of voice recording.                                          *)
(***************************************************************************)
RECURSIVE Concat(_)
Concat(fs) == IF fs = <<>> THEN "" ELSE Head(fs) \o Concat(Tail(fs))

\* A step of the running application in which stop() closes the connection
\* of session n.
StopStep(n) ==
  /\ app = "running" /\ app' = "running"
  /\ n \in DOMAIN sessions
  /\ sessions[n].conn \in {"pending", "open"}
  /\ sessions'[n].conn = "closing"

\* C17: the step in which a session is stopped closes its connection,
\* stops its microphone tracks, sets the input to the session's accumulated
\* text, the recording flag to idle and the stored handle to none; the
\* accumulated text of a session is the concatenation of the fragments it
\* received, in arrival order, and a stopped session receives no more.
C17_Stop ==
  /\ [](\A n \in DOMAIN sessions : sessions[n].text = Concat(sessions[n].received))
  /\ [][\A n \in 1..(MaxSessions + 1) :
          StopStep(n) =>
            /\ ~sessions'[n].mic
            /\ sessions'[n].received = sessions[n].received
            /\ transcript' = Concat(sessions[n].received)
            /\ isRecording' = FALSE
            /\ voiceSessionRef' = None]_vars
  /\ [][\A n \in 1..(MaxSessions + 1) :
          (/\ app = "running" /\ app' = "running"
           /\ n \in DOMAIN sessions
           /\ sessions[n].conn \in {"closing", "closed"}) =>
            sessions'[n].received = sessions[n].received]_vars

\* An open session that received two fragments was stopped.
C17_Witness ==
  /\ app = "running"
  /\ ~isRecording
  /\ voiceSessionRef = None
  /\ \E n \in DOMAIN sessions :
       /\ sessions[n].conn = "closing"
       /\ ~sessions[n].mic
       /\ sessions[n].received = <<"Had ", "a picnic">>
       /\ transcript = "Had a picnic"

\* Steps of the running application in which the start of a recording
\* fails (getUserMedia rejects or connectVoice throws after it, or the
\* promise of ai.live.connect rejects), and in which a connection reports
\* an error.
StartFailStep ==
  /\ app = "running" /\ app' = "running"
  /\ \E n \in DOMAIN sessions :
       \/ sessions[n].phase = "media" /\ sessions'[n].phase = "failed"
       \/ sessions[n].conn = "pending" /\ sessions'[n].conn = "rejected"
SessionErrorStep ==
  /\ app = "running" /\ app' = "running"
  /\ \E n \in DOMAIN sessions : ~sessions[n].errored /\ sessions'[n].errored

\* C18: a failed start and an error of a session set the recording flag to
\* idle and the message of that failure, and leave history, the stored
\* history, the displayed entry, and the generating and exporting flags as
\* they are.
C18_RecordingFailure ==
  /\ [][StartFailStep => error' = Some(VoiceStartError)]_vars
  /\ [][SessionErrorStep => error' = Some(VoiceConnectionError)]_vars
  /\ [][(StartFailStep \/ SessionErrorStep) =>
          /\ isRecording' = FALSE
          /\ history' = history
          /\ storage' = storage
          /\ currentDoodle' = currentDoodle
          /\ isGenerating' = isGenerating
          /\ isExporting' = isExporting]_vars

\* What holds instead: a rejection of connectVoice and an error of a session
\* do so; a rejection of the ai.live.connect promise sets no message and
\* leaves the recording flag as it is.
C18_AwaitedFailure ==
  /\ [][(app = "running" /\ app' = "running"
          /\ \E n \in DOMAIN sessions :
               sessions[n].phase = "media" /\ sessions'[n].phase = "failed") =>
          error' = Some(VoiceStartError) /\ isRecording' = FALSE]_vars
  /\ [][SessionErrorStep =>
          error' = Some(VoiceConnectionError) /\ isRecording' = FALSE]_vars
  /\ [][(app = "running" /\ app' = "running"
          /\ \E n \in DOMAIN sessions :
               sessions[n].conn = "pending" /\ sessions'[n].conn = "rejected") =>
          error' = error /\ isRecording' = isRecording]_vars

\* C16: each of the three flags that becomes active reverts to idle, when
\* every awaited call settles and a recording is stopped or ended.
C16_FlagsRevert ==
  /\ isRecording ~> ~isRecording
  /\ isGenerating ~> ~isGenerating
  /\ isExporting ~> ~isExporting

\* The generating and the exporting flag do revert.
C16_GeneratingExportingRevert ==
  /\ isGenerating ~> ~isGenerating
  /\ isExporting ~> ~isExporting


(***************************************************************************)
(* Properties of the life of an entry.                                     *)
(***************************************************************************)
\* The generation chain i stored its entry in this step.
StoredBy(i) ==
  /\ i \in DOMAIN inflight
  /\ inflight[i].pc = "image"
  /\ inflight' = Remove(inflight, i)
  /\ clock' = clock + 1
  /\ Len(history') = Len(history) + 1
  /\ Head(history').id = NumToString(clock')

\* The row i was deleted in this step.
DeletedRow(i) ==
  /\ i \in DOMAIN history
  /\ history' = removeEntry(history, history[i].id)
  /\ UNCHANGED <<transcript, style, inflight, exportVars, voiceVars>>

\* C19: while the application runs, an entry that is in history before and
\* after a step has the same six fields after it as before; history gets
\* longer only in a step in which a generation succeeds, and shorter only
\* in a step in which a row is deleted.
C19_Lifecycle ==
  [][(app = "running" /\ app' = "running") =>
       /\ \A i \in DOMAIN history : \A j \in DOMAIN history' :
            history'[j].id = history[i].id => history'[j] = history[i]
       /\ Len(history') > Len(history) => \E i \in 1..(MaxInflight + 1) : StoredBy(i)
       /\ Len(history') < Len(history) => \E i \in 1..(MaxEntries + 1) : DeletedRow(i)
       /\ Len(history') = Len(history) => history' = history]_vars

\* An entry made with the initial style is in history under another style,
\* below a later entry, after a recording and during an export.
C19_Witness ==
  /\ app = "running"
  /\ Len(history) = 2
  /\ history[2].style = InitialStyle
  /\ style # InitialStyle
  /\ history[1].style = style
  /\ transcript = "a picnic"
  /\ sessions # <<>>
  /\ isExporting


(***************************************************************************)
(* Properties of the two calls of a generation.                            *)
(***************************************************************************)
\* The calls to fn among cs.
CallsTo(cs, fn) == SelectSeq(cs, LAMBDA c : c.fn = fn)

\* C20: a generation that waits for the visual prompt has issued that call
\* and no image call; one that waits for the image has issued the prompt
\* call and then one image call, with the prompt the first call returned;
\* a step issues an image call only as the prompt call resolves, a
\* generation whose prompt call rejects ends without one, and the entry a
\* generation stores has the prompt that was passed to its image call.
C20_TwoCalls ==
  /\ [](\A i \in DOMAIN inflight :
          LET c == inflight[i] IN
            /\ c.pc = "prompt" => c.calls = <<promptCall(c.transcript, c.style)>>
            /\ c.pc = "image" =>
                 /\ Len(c.calls) = 2
                 /\ c.calls[1] = promptCall(c.transcript, c.style)
                 /\ c.calls[2].fn = "generateDoodle"
                 /\ c.calls[2].args = <<c.prompt>>)
  /\ [][\A i \in 1..(MaxInflight + 1) :
          (/\ app = "running" /\ app' = "running"
           /\ i \in DOMAIN inflight /\ i \in DOMAIN inflight'
           /\ Len(inflight') = Len(inflight)
           /\ Len(CallsTo(inflight'[i].calls, "generateDoodle"))
                > Len(CallsTo(inflight[i].calls, "generateDoodle"))) =>
            /\ inflight[i].pc = "prompt"
            /\ inflight'[i].pc = "image"
            /\ \E text \in PromptTexts :
                 inflight'[i].calls = Append(inflight[i].calls,
                   [fn |-> "generateDoodle", args |-> <<generateVisualPrompt(text)>>])]_vars
  /\ [][\A i \in 1..(MaxInflight + 1) :
          (/\ app = "running" /\ app' = "running"
           /\ i \in DOMAIN inflight
           /\ inflight[i].pc = "prompt"
           /\ inflight' = Remove(inflight, i)) =>
            /\ CallsTo(inflight[i].calls, "generateDoodle") = <<>>
            /\ history' = history
            /\ error' = Some(GenerateError)]_vars
  /\ [][(app = "running" /\ app' = "running" /\ AddStep) =>
          \E i \in DOMAIN inflight :
            /\ inflight' = Remove(inflight, i)
            /\ CallsTo(inflight[i].calls, "generateDoodle")
                 = <<[fn |-> "generateDoodle", args |-> <<Head(history').prompt>>]>>]_vars

\* An entry was stored with the prompt the gateway returned, while a later
\* generation waits for its image under the prompt that replaces an empty
\* answer.
C20_Witness ==
  /\ app = "running"
  /\ clock > 0
  /\ history # <<>>
  /\ Head(history).id = NumToString(clock)
  /\ Head(history).prompt = PicnicPrompt
  /\ \E i \in DOMAIN inflight :
       /\ inflight[i].pc = "image"
       /\ inflight[i].calls[2].args = <<DefaultPrompt>>


(***************************************************************************)
(* Properties of the resources of voice recording.                         *)
(***************************************************************************)
\* Session n still holds its microphone stream (a track is live) or its
\* gateway connection (being established or open, close() not called).
Holds(n) == sessions[n].mic \/ sessions[n].conn \in {"pending", "open"}

\* C21: while the recording flag is idle no session holds a microphone
\* stream or a gateway connection, and at no time do two sessions hold one.
C21_IdleHoldsNothing ==
  /\ (app = "running" /\ ~isRecording) => \A n \in DOMAIN sessions : ~Holds(n)
  /\ Cardinality({n \in DOMAIN sessions : Holds(n)}) <= 1


(***************************************************************************)
(* Properties of what an entry records.                                    *)
(***************************************************************************)
\* C22: a generation takes the input and the style of the state it is
\* invoked in, keeps them whatever is edited, transcribed or restyled while
\* it waits, and stores them in its entry; a change of the style changes no
\* entry of history.
C22_Capture ==
  /\ [][(app = "running" /\ app' = "running" /\ Len(inflight') > Len(inflight)) =>
          /\ inflight'[Len(inflight')].transcript = transcript
          /\ inflight'[Len(inflight')].style = style]_vars
  /\ [][(app = "running" /\ app' = "running" /\ Len(inflight') = Len(inflight)) =>
          \A i \in DOMAIN inflight :
            /\ inflight'[i].transcript = inflight[i].transcript
            /\ inflight'[i].style = inflight[i].style]_vars
  /\ [][(app = "running" /\ app' = "running" /\ AddStep) =>
          \E i \in DOMAIN inflight :
            /\ inflight' = Remove(inflight, i)
            /\ Head(history').transcript = inflight[i].transcript
            /\ Head(history').style = inflight[i].style]_vars
  /\ [][(app = "running" /\ app' = "running" /\ style' # style) =>
          history' = history]_vars

\* An entry was stored with the input and the style of its invocation,
\* after a transcription had replaced the input and the style had been
\* changed.
C22_Witness ==
  /\ app = "running"
  /\ clock > 0
  /\ history # <<>>
  /\ Head(history).id = NumToString(clock)
  /\ Head(history).transcript = "a picnic"
  /\ Head(history).style = InitialStyle
  /\ style # InitialStyle
  /\ \E n \in DOMAIN sessions : sessions[n].text = "Had " /\ sessions[n].conn = "open"

=============================================================================
